---- MODULE Spec2Model ----
(***************************************************************************)
(* Candidate-job compatibility engine of Ai-Powered-job-application        *)
(* (server/services/aiMatching.js).                                        *)
(*                                                                         *)
(* The engine is request scoped: every call is a function of its arguments *)
(* and of what the generative backend answers.  The state of the model is  *)
(* the last call made on the service: the operation, its arguments and what *)
(* it returned.                                                            *)
(*                                                                         *)
(* Modelling conventions                                                   *)
(*  - a JavaScript string is a sequence of one-character strings;          *)
(*  - an optional value (undefined / null) is None == <<>> and a present   *)
(*    value v is Some(v) == <<v>>;                                         *)
(*  - JavaScript numbers are modelled by exact integers and ratios of      *)
(*    integers; Math.round(n/d) is Round(n, d) (half rounds up);           *)
(*  - a call that can raise returns [threw |-> BOOLEAN, value |-> ...].    *)
(***************************************************************************)
EXTENDS Integers, Sequences, FiniteSets, TLC

VARIABLES op, args, result, db, requests

vars == <<op, args, result, db, requests>>

----------------------------------------------------------------------------
(* Bounds of the model *)

MaxDim == 2
MaxComponent == 1

----------------------------------------------------------------------------
(* JavaScript values *)

None == <<>>
Some(v) == <<v>>
IsSome(o) == Len(o) = 1
Get(o) == o[1]

Option(S) == {None} \cup {Some(v) : v \in S}

SeqsUpTo(S, n) == UNION {[1..k -> S] : k \in 0..n}

Min(a, b) == IF a < b THEN a ELSE b
Max(a, b) == IF a > b THEN a ELSE b

(* Math.round(num / den) for den > 0: nearest integer, half towards +Infinity *)
Round(num, den) == (2 * num + den) \div (2 * den)

----------------------------------------------------------------------------
(* cosineSimilarity.  The returned number dot / (sqrt(normA2) * sqrt(normB2)) *)
(* is kept exact as the pair [dot, den2] standing for dot / sqrt(den2).       *)

RECURSIVE SumSeq(_)
SumSeq(s) == IF s = <<>> THEN 0 ELSE s[1] + SumSeq(Tail(s))

Dot(a, b) == SumSeq([i \in 1..Len(a) |-> a[i] * b[i]])

Zero == [dot |-> 0, den2 |-> 1]

cosineSimilarity(vecA, vecB) ==
  IF Len(vecA) # Len(vecB)
  THEN [threw |-> TRUE, value |-> Zero]
  ELSE LET dotProduct == Dot(vecA, vecB)
           normA2 == Dot(vecA, vecA)
           normB2 == Dot(vecB, vecB)
       IN IF normA2 = 0 \/ normB2 = 0
          THEN [threw |-> FALSE, value |-> Zero]
          ELSE [threw |-> FALSE,
                value |-> [dot |-> dotProduct, den2 |-> normA2 * normB2]]

Vectors == SeqsUpTo(-MaxComponent..MaxComponent, MaxDim)

----------------------------------------------------------------------------
(* Strings: String.prototype.toLowerCase and String.prototype.includes *)

Uppers == <<"A", "B", "C", "D", "E", "F", "G", "H", "I", "J", "K", "L", "M",
            "N", "O", "P", "Q", "R", "S", "T", "U", "V", "W", "X", "Y", "Z">>
Lowers == <<"a", "b", "c", "d", "e", "f", "g", "h", "i", "j", "k", "l", "m",
            "n", "o", "p", "q", "r", "s", "t", "u", "v", "w", "x", "y", "z">>

toLowerChar(c) ==
  IF \E i \in 1..26 : Uppers[i] = c
  THEN Lowers[CHOOSE i \in 1..26 : Uppers[i] = c]
  ELSE c

toLowerCase(str) == [i \in 1..Len(str) |-> toLowerChar(str[i])]

(* str.includes(sub): sub occurs in str as a contiguous run *)
includes(str, sub) ==
  \E i \in 0..(Len(str) - Len(sub)) : SubSeq(str, i + 1, i + Len(sub)) = sub

(* array.includes(x) *)
arrayIncludes(arr, x) == \E i \in 1..Len(arr) : arr[i] = x

----------------------------------------------------------------------------
(* The generative backend answering the skills comparison prompt: it fails *)
(* with a quota / rate-limit error, fails with another error, or answers a *)
(* text.                                                                    *)

Digits == <<"0", "1", "2", "3", "4", "5", "6", "7", "8", "9">>
IsDigit(c) == \E i \in 1..10 : Digits[i] = c
DigitVal(c) == (CHOOSE i \in 1..10 : Digits[i] = c) - 1

Whitespace == {" ", "\n", "\t", "\r"}

(* str.trim() *)
trim(str) ==
  IF \A i \in 1..Len(str) : str[i] \in Whitespace THEN <<>>
  ELSE LET first == CHOOSE i \in 1..Len(str) :
                      str[i] \notin Whitespace /\ \A j \in 1..(i - 1) : str[j] \in Whitespace
           last == CHOOSE i \in 1..Len(str) :
                     str[i] \notin Whitespace /\ \A j \in (i + 1)..Len(str) : str[j] \in Whitespace
       IN SubSeq(str, first, last)

RECURSIVE DigitsPrefix(_, _)
DigitsPrefix(str, acc) ==
  IF str # <<>> /\ IsDigit(Head(str))
  THEN DigitsPrefix(Tail(str), 10 * acc + DigitVal(Head(str)))
  ELSE acc

(* parseInt(str): optional sign, then the longest run of digits; NaN (None) *)
(* when no digit follows.                                                    *)
parseInt(str) ==
  LET neg == str # <<>> /\ Head(str) = "-"
      body == IF str # <<>> /\ Head(str) \in {"-", "+"} THEN Tail(str) ELSE str
  IN IF body = <<>> \/ ~IsDigit(Head(body))
     THEN None
     ELSE Some(IF neg THEN -DigitsPrefix(body, 0) ELSE DigitsPrefix(body, 0))

ReplyTexts ==
  { <<"8", "5">>, <<" ", "7", " ">>, <<"1", "5", "0">>, <<"-", "5">>,
    <<"S", "c", "o", "r", "e", ":", " ", "8", "5">> }

Backends ==
  {[kind |-> "quota", text |-> <<>>], [kind |-> "error", text |-> <<>>]}
    \cup {[kind |-> "text", text |-> t] : t \in ReplyTexts}

----------------------------------------------------------------------------
(* Skills scorers.  A skill list is a sequence of skill names. *)

MaxResumeSkills == 2
MaxJobSkills == 4

Go == <<"G", "o">>
go == <<"g", "o">>
Golang == <<"G", "o", "l", "a", "n", "g">>
SQL == <<"S", "Q", "L">>

ResumeSkillNames == {go, Golang, SQL}
JobSkillNames == {Go, Golang, SQL}

ResumeSkillLists == SeqsUpTo(ResumeSkillNames, MaxResumeSkills)
JobSkillLists == SeqsUpTo(JobSkillNames, MaxJobSkills)

lowerNames(skills) == [i \in 1..Len(skills) |-> toLowerCase(skills[i])]

(* calculateSkillsMatchFallback with the partial match tested in one       *)
(* direction only (resume skill contains job skill)                        *)
calculateSkillsMatchFallbackOneWay(resumeSkills, jobSkills) ==
  IF resumeSkills = None \/ Len(resumeSkills) = 0
       \/ jobSkills = None \/ Len(jobSkills) = 0
  THEN 0
  ELSE LET resumeSkillNames == lowerNames(resumeSkills)
           jobSkillNames == lowerNames(jobSkills)
           exact(j) == arrayIncludes(resumeSkillNames, jobSkillNames[j])
           partial(j) == \E r \in 1..Len(resumeSkillNames) :
                            includes(resumeSkillNames[r], jobSkillNames[j])
           totalHalves ==
             2 * Cardinality({j \in 1..Len(jobSkillNames) : exact(j)})
               + Cardinality({j \in 1..Len(jobSkillNames) : ~exact(j) /\ partial(j)})
       IN Round(100 * totalHalves, 2 * Len(jobSkillNames))

calculateSkillsMatchFallback(resumeSkills, jobSkills) ==
  IF resumeSkills = None \/ Len(resumeSkills) = 0
       \/ jobSkills = None \/ Len(jobSkills) = 0
  THEN 0
  ELSE LET resumeSkillNames == lowerNames(resumeSkills)
           jobSkillNames == lowerNames(jobSkills)
           exact(j) == arrayIncludes(resumeSkillNames, jobSkillNames[j])
           partial(j) == \E r \in 1..Len(resumeSkillNames) :
                            \/ includes(resumeSkillNames[r], jobSkillNames[j])
                            \/ includes(jobSkillNames[j], resumeSkillNames[r])
           exactMatches == Cardinality({j \in 1..Len(jobSkillNames) : exact(j)})
           partialMatches ==
             Cardinality({j \in 1..Len(jobSkillNames) : ~exact(j) /\ partial(j)})
           (* totalMatches = exactMatches + partialMatches * 0.5, in halves *)
           totalHalves == 2 * exactMatches + partialMatches
           (* matchPercentage = (totalMatches / n) * 100 = pNum / pDen *)
           pNum == 100 * totalHalves
           pDen == 2 * Len(jobSkillNames)
           clampedNum == Min(Max(pNum, 0), 100 * pDen)
       IN Round(clampedNum, pDen)

calculateSkillsMatch(resumeSkills, jobSkills, backend) ==
  IF resumeSkills = None \/ Len(resumeSkills) = 0
       \/ jobSkills = None \/ Len(jobSkills) = 0
  THEN 0
  ELSE CASE backend.kind = "text" ->
              LET score == parseInt(trim(backend.text))
              IN IF score = None THEN 0 ELSE Min(Max(Get(score), 0), 100)
         [] backend.kind = "quota" ->
              calculateSkillsMatchFallback(resumeSkills, jobSkills)
         [] OTHER -> 0

----------------------------------------------------------------------------
(* Experience scorer.  A Date is [year, month] with month as getMonth()     *)
(* gives it (0..11); an experience entry has an optional start and end date. *)

MaxExperience == 2
MaxMinYears == 8

Jan2020 == [year |-> 2020, month |-> 0]
Jul2021 == [year |-> 2021, month |-> 6]
Jan2024 == [year |-> 2024, month |-> 0]

ExperienceDates == {Jan2020, Jul2021, Jan2024}

ExperienceEntries ==
  [startDate : Option(ExperienceDates), endDate : Option(ExperienceDates)]

ExperienceLists == SeqsUpTo(ExperienceEntries, MaxExperience)

(* job.requirements.experience: absent, or an object whose min may be absent *)
JobExperiences == Option([min : Option(0..MaxMinYears)])

(* The value of Math.round(-Infinity): below every other number *)
NegInfinity == 0 - 1000000

monthsOf(exp) ==
  IF IsSome(exp.startDate) /\ IsSome(exp.endDate)
  THEN LET start == Get(exp.startDate)
           end == Get(exp.endDate)
       IN (end.year - start.year) * 12 + (end.month - start.month)
  ELSE 0

(* calculateTotalExperience with the years truncated (Math.floor) *)
calculateTotalExperienceTruncated(experience) ==
  SumSeq([i \in 1..Len(experience) |-> monthsOf(experience[i])]) \div 12

calculateTotalExperience(experience) ==
  LET totalMonths == SumSeq([i \in 1..Len(experience) |-> monthsOf(experience[i])])
  IN Round(totalMonths, 12)

calculateExperienceMatch(resumeExperience, jobExperience) ==
  IF jobExperience = None \/ Len(resumeExperience) = 0
  THEN (IF jobExperience # None THEN 0 ELSE 100)
  ELSE LET totalExperience == calculateTotalExperience(resumeExperience)
           min == Get(jobExperience).min
           requiredExperience == IF min = None THEN 0 ELSE Get(min)
       IN IF totalExperience >= requiredExperience
          THEN 100
          ELSE IF requiredExperience = 0
               THEN NegInfinity  \* (negative / 0) * 100
               ELSE Round(100 * totalExperience, requiredExperience)

----------------------------------------------------------------------------
(* Education scorer.  An education entry has an optional degree string; the *)
(* job's education requirement is absent or [required, degree].             *)

MaxEducation == 2

BS == <<"B", "S">>
bs == <<"b", "s">>
BSc == <<"B", "S", "c">>
MS == <<"M", "S">>
MSc == <<"M", "S", "c">>
Empty == <<>>

EducationEntries == [degree : Option({Empty, bs, BSc, MS})]
EducationLists == SeqsUpTo(EducationEntries, MaxEducation)
JobEducations == Option([required : BOOLEAN, degree : {Empty, BS, MSc}])

(* JavaScript truthiness of an optional string: undefined and '' are falsy *)
truthy(optStr) == IsSome(optStr) /\ Get(optStr) # Empty

(* calculateEducationMatch comparing the degrees without lowercasing them *)
calculateEducationMatchCaseSensitive(resumeEducation, jobEducation) ==
  IF jobEducation = None \/ ~Get(jobEducation).required
  THEN 100
  ELSE IF Len(resumeEducation) = 0
  THEN 0
  ELSE IF \E i \in 1..Len(resumeEducation) :
             /\ truthy(resumeEducation[i].degree)
             /\ includes(Get(resumeEducation[i].degree), Get(jobEducation).degree)
       THEN 100
       ELSE 0

calculateEducationMatch(resumeEducation, jobEducation) ==
  IF jobEducation = None \/ ~Get(jobEducation).required
  THEN 100
  ELSE IF Len(resumeEducation) = 0
  THEN 0
  ELSE LET hasRequiredDegree ==
             \E i \in 1..Len(resumeEducation) :
                /\ truthy(resumeEducation[i].degree)
                /\ includes(toLowerCase(Get(resumeEducation[i].degree)),
                            toLowerCase(Get(jobEducation).degree))
       IN IF hasRequiredDegree THEN 100 ELSE 0

----------------------------------------------------------------------------
(* Location scorer *)

NYC == <<"N", "Y", "C">>
NY == <<"N", "Y">>
la == <<"l", "a">>
LA == <<"L", "A">>

PersonalInfos == [location : Option({Empty, NYC, la})]
JobLocations == [remote : BOOLEAN, city : Option({Empty, NY, LA})]

(* calculateLocationMatch testing the unknown location before the remote flag *)
calculateLocationMatchUnknownFirst(personalInfo, jobLocation) ==
  IF ~truthy(personalInfo.location) \/ ~truthy(jobLocation.city)
  THEN 50
  ELSE IF jobLocation.remote
  THEN 100
  ELSE LET userLocation == toLowerCase(Get(personalInfo.location))
           jobCity == toLowerCase(Get(jobLocation.city))
       IN IF includes(userLocation, jobCity) \/ includes(jobCity, userLocation)
          THEN 100
          ELSE 30

calculateLocationMatch(personalInfo, jobLocation) ==
  IF jobLocation.remote
  THEN 100
  ELSE IF ~truthy(personalInfo.location) \/ ~truthy(jobLocation.city)
  THEN 50
  ELSE LET userLocation == toLowerCase(Get(personalInfo.location))
           jobCity == toLowerCase(Get(jobLocation.city))
       IN IF includes(userLocation, jobCity) \/ includes(jobCity, userLocation)
          THEN 100
          ELSE 30

----------------------------------------------------------------------------
(* Match aggregator: calculateJobMatchScore *)

(* k * sqrt(p) <= c, for integers k, c and p > 0 *)
LeqSqrt(k, p, c) ==
  IF k <= 0
  THEN (IF c >= 0 THEN TRUE ELSE k * k * p >= c * c)
  ELSE (IF c < 0 THEN FALSE ELSE k * k * p <= c * c)

(* Math.round(similarity * 100) for similarity = dot / sqrt(den2): the      *)
(* integer r with r - 1/2 <= 100 * dot / sqrt(den2) < r + 1/2               *)
roundSimilarityPercent(similarity) ==
  CHOOSE r \in -100..100 :
    /\ LeqSqrt(2 * r - 1, similarity.den2, 200 * similarity.dot)
    /\ ~LeqSqrt(2 * r + 1, similarity.den2, 200 * similarity.dot)

(* weightedOverall with the sum truncated (Math.floor) instead of rounded *)
weightedOverallTruncated(skillsMatch, experienceMatch, educationMatch, locationMatch) ==
  IF experienceMatch = NegInfinity
  THEN NegInfinity
  ELSE (4 * skillsMatch + 3 * experienceMatch
          + 2 * educationMatch + 1 * locationMatch) \div 10

(* Math.round(skills * 0.4 + experience * 0.3 + education * 0.2 + location * 0.1) *)
weightedOverall(skillsMatch, experienceMatch, educationMatch, locationMatch) ==
  IF experienceMatch = NegInfinity
  THEN NegInfinity
  ELSE Round(4 * skillsMatch + 3 * experienceMatch
               + 2 * educationMatch + 1 * locationMatch, 10)

ZeroScores ==
  [skillsMatch |-> 0, experienceMatch |-> 0, educationMatch |-> 0,
   locationMatch |-> 0, overallScore |-> 0]

(* The skills step of calculateJobMatchScore; an array, even an empty one, *)
(* is truthy, so only an absent embedding selects the skill-list path.     *)
skillsStep(resume, job, backend) ==
  IF IsSome(resume.skillsEmbedding) /\ IsSome(job.embedding)
  THEN LET skillsSimilarity ==
             cosineSimilarity(Get(resume.skillsEmbedding), Get(job.embedding))
       IN [threw |-> skillsSimilarity.threw,
           value |-> roundSimilarityPercent(skillsSimilarity.value)]
  ELSE [threw |-> FALSE,
        value |-> calculateSkillsMatch(resume.skills, job.skills, backend)]

calculateJobMatchScore(resume, job, backend) ==
  LET skills == skillsStep(resume, job, backend)
      experienceMatch == calculateExperienceMatch(resume.experience, job.experience)
      educationMatch == calculateEducationMatch(resume.education, job.education)
      locationMatch == calculateLocationMatch(resume.personalInfo, job.location)
  IN IF skills.threw
     THEN ZeroScores  \* the catch block around the whole computation
     ELSE [skillsMatch |-> skills.value,
           experienceMatch |-> experienceMatch,
           educationMatch |-> educationMatch,
           locationMatch |-> locationMatch,
           overallScore |-> weightedOverall(skills.value, experienceMatch,
                                            educationMatch, locationMatch)]

(* Resumes and jobs handed to calculateJobMatchScore *)
MatchResumes ==
  [skillsEmbedding : {None, Some(<<>>), Some(<<1, 0>>), Some(<<-1, 1>>)},
   skills : {<<>>, <<Golang>>, <<go, SQL>>},
   experience : {<<>>,
                 <<[startDate |-> Some(Jul2021), endDate |-> Some(Jan2024)]>>,
                 <<[startDate |-> Some(Jan2024), endDate |-> Some(Jan2020)]>>},
   education : {<<>>, <<[degree |-> Some(BSc)]>>},
   personalInfo : [location : {None, Some(NYC)}]]

MatchJobs ==
  [embedding : {None, Some(<<>>), Some(<<1, 0>>), Some(<<1, 1>>)},
   skills : {<<>>, <<Golang, SQL, Go>>},
   experience : {None, Some([min |-> None]), Some([min |-> Some(4)])},
   education : {None, Some([required |-> TRUE, degree |-> BS]),
                Some([required |-> TRUE, degree |-> MSc])},
   location : {[remote |-> TRUE, city |-> None],
               [remote |-> FALSE, city |-> Some(NY)],
               [remote |-> FALSE, city |-> Some(LA)]}]

MatchBackends ==
  {[kind |-> "quota", text |-> <<>>], [kind |-> "error", text |-> <<>>],
   [kind |-> "text", text |-> <<"8", "5">>]}

(* A resume that lists the skills Python and SQL and a job that requires   *)
(* Python and Go and constrains nothing else; neither has an embedding.    *)
Python == <<"P", "y", "t", "h", "o", "n">>

EndToEndResumes ==
  [skillsEmbedding : {None},
   skills : {<<Python, SQL>>},
   experience : {<<>>,
                 <<[startDate |-> Some(Jul2021), endDate |-> Some(Jan2024)]>>},
   education : {<<>>, <<[degree |-> Some(BSc)]>>},
   personalInfo : [location : {None, Some(NYC)}]]

EndToEndJobs ==
  [embedding : {None},
   skills : {<<Python, Go>>},
   experience : {None, Some([min |-> None])},
   education : {None, Some([required |-> FALSE, degree |-> Empty])},
   location : {[remote |-> TRUE, city |-> None],
               [remote |-> FALSE, city |-> None]}]

----------------------------------------------------------------------------
(* Vector embedder: generateEmbedding and generateFallbackEmbedding.  A    *)
(* component of the fallback vector is the ratio [num, den]; NaN is 0 / 0. *)

MaxWords == 52

FallbackDimensions == 50

IsWhitespace(c) == c \in Whitespace

(* str.split(/\s+/): the pieces between the maximal runs of whitespace,    *)
(* an empty piece before a leading run and after a trailing one            *)
split(str) ==
  LET n == Len(str)
      (* a piece starts at the head of the string and after each run *)
      starts == {i \in 1..(n + 1) :
                   \/ i = 1
                   \/ /\ IsWhitespace(str[i - 1])
                      /\ (i > n \/ ~IsWhitespace(str[i]))}
      (* and ends before the next whitespace or at the end of the string *)
      end(i) == CHOOSE j \in (i - 1)..n :
                  /\ \A k \in i..j : ~IsWhitespace(str[k])
                  /\ (j = n \/ IsWhitespace(str[j + 1]))
      start(k) == CHOOSE i \in starts : Cardinality({j \in starts : j < i}) = k - 1
  IN [k \in 1..Cardinality(starts) |->
        IF end(start(k)) < start(k) THEN <<>>
        ELSE [c \in 1..(end(start(k)) - start(k) + 1) |-> str[start(k) + c - 1]]]

(* the distinct elements of a sequence in order of first occurrence *)
RECURSIVE distinct(_, _)
distinct(seq, seen) ==
  IF seq = <<>> THEN <<>>
  ELSE IF Head(seq) \in seen THEN distinct(Tail(seq), seen)
  ELSE <<Head(seq)>> \o distinct(Tail(seq), seen \cup {Head(seq)})

(* a property name that is an array index: decimal digits, no leading zero *)
IsIndexKey(word) ==
  /\ word # <<>>
  /\ \A i \in 1..Len(word) : IsDigit(word[i])
  /\ (Len(word) > 1 => word[1] # "0")

RECURSIVE ascending(_)
ascending(S) ==
  IF S = {} THEN <<>>
  ELSE LET least == CHOOSE x \in S :
                      \A y \in S : DigitsPrefix(x, 0) <= DigitsPrefix(y, 0)
       IN <<least>> \o ascending(S \ {least})

Constructor == <<"c", "o", "n", "s", "t", "r", "u", "c", "t", "o", "r">>
Proto == <<"_", "_", "p", "r", "o", "t", "o", "_", "_">>

(* Object.keys(wordCount): index keys in ascending numeric order, then the *)
(* other own keys in insertion order; assigning a string to __proto__      *)
(* creates no own key                                                       *)
objectKeys(inserted) ==
  LET own == SelectSeq(distinct(inserted, {}), LAMBDA w : w # Proto)
      indexKeys == {own[i] : i \in {j \in 1..Len(own) : IsIndexKey(own[j])}}
  IN ascending(indexKeys) \o SelectSeq(own, LAMBDA w : ~IsIndexKey(w))

occurrences(words, word) ==
  Cardinality({i \in 1..Len(words) : words[i] = word})

NaN == [num |-> 0, den |-> 0]

(* generateFallbackEmbedding without the zero padding and the cut at 50 *)
generateFallbackEmbeddingUnpadded(text) ==
  LET words == split(toLowerCase(text))
      uniqueWords == objectKeys(SelectSeq(words, LAMBDA w : Len(w) > 2))
  IN [i \in 1..Len(uniqueWords) |->
        IF uniqueWords[i] = Constructor
        THEN NaN
        ELSE [num |-> occurrences(words, uniqueWords[i]), den |-> Len(words)]]

generateFallbackEmbedding(text) ==
  LET words == split(toLowerCase(text))
      counted == SelectSeq(words, LAMBDA w : Len(w) > 2)
      totalWords == Len(words)
      uniqueWords == objectKeys(counted)
      (* wordCount[word] || 0 reads Object.prototype.constructor for the   *)
      (* word "constructor": the count becomes a string and the ratio NaN  *)
      component(word) ==
        IF word = Constructor
        THEN NaN
        ELSE [num |-> occurrences(words, word), den |-> totalWords]
  IN [i \in 1..FallbackDimensions |->
        IF i <= Len(uniqueWords)
        THEN component(uniqueWords[i])
        ELSE [num |-> 0, den |-> 1]]

(* The embedding backend: it answers a vector, or fails with a quota /     *)
(* rate-limit error or with another error.                                  *)
EmbeddingBackends ==
  {[kind |-> "quota", values |-> <<>>], [kind |-> "error", values |-> <<>>]}
    \cup {[kind |-> "ok", values |-> v] : v \in {<<1, 0>>, <<0, 1, 1>>}}

generateEmbedding(text, backend) ==
  CASE backend.kind = "ok" -> [threw |-> FALSE, value |-> backend.values]
    [] backend.kind = "quota" ->
         [threw |-> FALSE, value |-> generateFallbackEmbedding(text)]
    [] OTHER -> [threw |-> TRUE, value |-> <<>>]  \* 'Failed to generate embedding'

(* Texts: the first n words of a vocabulary of distinct three-letter words, *)
(* and texts with repeated, short, numeric and upper-case words and with    *)
(* leading, trailing and repeated whitespace.                               *)
vocabularyWord(k) == <<Lowers[1 + (k \div 26)], Lowers[1 + (k % 26)], "x">>

RECURSIVE joinWords(_)
joinWords(words) ==
  IF words = <<>> THEN <<>>
  ELSE IF Len(words) = 1 THEN words[1]
  ELSE words[1] \o <<" ">> \o joinWords(Tail(words))

Y2020 == <<"2", "0", "2", "0">>
N100 == <<"1", "0", "0">>
N007 == <<"0", "0", "7">>

SampleWords == {go, Golang, SQL, Python, Y2020, N100, N007, Constructor, Proto, Empty}

EmbeddingTexts ==
  {joinWords([i \in 1..n |-> vocabularyWord(i)]) : n \in 0..MaxWords}
    \cup {joinWords(ws) : ws \in SeqsUpTo(SampleWords, 2)}
    \cup {joinWords(<<Golang, Y2020, go, w, Python, N100, Golang>>) : w \in SampleWords}

----------------------------------------------------------------------------
(* Responses of the generative backend and their sanitising.  JSON.parse   *)
(* is modelled for objects, arrays, strings without escapes, unsigned      *)
(* integers and the three literals, which is all the responses hold.       *)

(* the number of wrappers (fence markers, prose) in front of a response *)
MaxWrappers == 2

startsWith(str, i, lit) ==
  /\ i + Len(lit) - 1 <= Len(str)
  /\ \A k \in 1..Len(lit) : str[i + k - 1] = lit[k]

(* str.indexOf(c) and str.lastIndexOf(c): positions count from 0, -1 when  *)
(* c does not occur                                                         *)
indexOf(str, c) ==
  IF \E i \in 1..Len(str) : str[i] = c
  THEN (CHOOSE i \in 1..Len(str) :
          str[i] = c /\ \A j \in 1..(i - 1) : str[j] # c) - 1
  ELSE -1

lastIndexOf(str, c) ==
  IF \E i \in 1..Len(str) : str[i] = c
  THEN (CHOOSE i \in 1..Len(str) :
          str[i] = c /\ \A j \in (i + 1)..Len(str) : str[j] # c) - 1
  ELSE -1

(* str.substring(start, end): both clamped to 0..length, swapped when      *)
(* start > end                                                              *)
substring(str, start, end) ==
  LET from == Max(0, Min(start, Len(str)))
      to == Max(0, Min(end, Len(str)))
  IN SubSeq(str, Min(from, to) + 1, Max(from, to))

(* the backtick character, which no TLA+ string can hold *)
Backtick == "BACKTICK"

JsonFence == <<Backtick, Backtick, Backtick, "j", "s", "o", "n">>
Fence == <<Backtick, Backtick, Backtick>>

(* text.replace(fence marker with or without json, all occurrences, ''):  *)
(* matches are found left to right, so in a run of backticks they start   *)
(* at every third one                                                      *)
removeFences(str) ==
  LET runStart(i) == CHOOSE j \in 1..i :
                       /\ \A k \in j..i : str[k] = Backtick
                       /\ (j = 1 \/ str[j - 1] # Backtick)
      matchAt(i) == /\ startsWith(str, i, Fence)
                    /\ (i - runStart(i)) % Len(Fence) = 0
      matchLen(i) == IF startsWith(str, i, JsonFence)
                     THEN Len(JsonFence) ELSE Len(Fence)
      removed(k) == \E i \in 1..k : matchAt(i) /\ k < i + matchLen(i)
      kept == SelectSeq([k \in 1..Len(str) |-> k], LAMBDA k : ~removed(k))
  IN [k \in 1..Len(kept) |-> str[kept[k]]]

(* JSON values *)
JsonNumber(n) == [type |-> "number", val |-> n]
JsonString(s) == [type |-> "string", val |-> s]
JsonLiteral(name) == [type |-> name, val |-> <<>>]
JsonArray(elements) == [type |-> "array", val |-> elements]
JsonObject(members) == [type |-> "object", val |-> members]

True == <<"t", "r", "u", "e">>
False == <<"f", "a", "l", "s", "e">>
Null == <<"n", "u", "l", "l">>

(* the first position from i on that holds no JSON whitespace *)
skipWhitespace(str, i) ==
  CHOOSE j \in i..(Len(str) + 1) :
    /\ \A k \in i..(j - 1) : str[k] \in Whitespace
    /\ (j > Len(str) \/ str[j] \notin Whitespace)

Failed == [ok |-> FALSE, value |-> <<>>, next |-> 0]
Parsed(value, next) == [ok |-> TRUE, value |-> value, next |-> next]

(* a string starts at the quote at i and ends at the next quote; it holds  *)
(* no control character                                                     *)
parseString(str, i) ==
  IF \E j \in (i + 1)..Len(str) : str[j] = "\""
  THEN LET close == CHOOSE j \in (i + 1)..Len(str) :
                      str[j] = "\"" /\ \A k \in (i + 1)..(j - 1) : str[k] # "\""
           body == SubSeq(str, i + 1, close - 1)
       IN IF \E k \in 1..Len(body) : body[k] \in {"\n", "\t", "\r"}
          THEN Failed
          ELSE Parsed(JsonString(body), close + 1)
  ELSE Failed

(* a number starts at the digit at i: a single 0, or a run of digits *)
parseNumber(str, i) ==
  LET end == IF str[i] = "0" THEN i
             ELSE CHOOSE j \in i..Len(str) :
                    /\ \A k \in i..j : IsDigit(str[k])
                    /\ (j = Len(str) \/ ~IsDigit(str[j + 1]))
  IN Parsed(JsonNumber(DigitsPrefix(SubSeq(str, i, end), 0)), end + 1)

RECURSIVE parseValue(_, _)
RECURSIVE parseMembers(_, _, _)
RECURSIVE parseElements(_, _, _)

(* the value that starts at the first non-blank position from at on *)
parseValue(str, at) ==
  LET i == skipWhitespace(str, at)
  IN IF i > Len(str) THEN Failed
     ELSE CASE str[i] = "{" ->
                 (LET j == skipWhitespace(str, i + 1)
                  IN IF j <= Len(str) /\ str[j] = "}"
                     THEN Parsed(JsonObject(<<>>), j + 1)
                     ELSE parseMembers(str, j, <<>>))
            [] str[i] = "[" ->
                 (LET j == skipWhitespace(str, i + 1)
                  IN IF j <= Len(str) /\ str[j] = "]"
                     THEN Parsed(JsonArray(<<>>), j + 1)
                     ELSE parseElements(str, j, <<>>))
            [] str[i] = "\"" -> parseString(str, i)
            [] IsDigit(str[i]) -> parseNumber(str, i)
            [] startsWith(str, i, True) ->
                 Parsed(JsonLiteral("true"), i + Len(True))
            [] startsWith(str, i, False) ->
                 Parsed(JsonLiteral("false"), i + Len(False))
            [] startsWith(str, i, Null) ->
                 Parsed(JsonLiteral("null"), i + Len(Null))
            [] OTHER -> Failed

(* the members of an object from position i on, after those in members;    *)
(* a later member replaces an earlier one of the same name                  *)
parseMembers(str, i, members) ==
  IF i > Len(str) \/ str[i] # "\"" THEN Failed
  ELSE LET key == parseString(str, i)
           colon == IF key.ok THEN skipWhitespace(str, key.next) ELSE 0
       IN IF ~key.ok \/ colon > Len(str) \/ str[colon] # ":" THEN Failed
          ELSE LET value == parseValue(str, colon + 1)
                   after == IF value.ok THEN skipWhitespace(str, value.next) ELSE 0
                   more == (key.value.val :> value.value) @@ members
               IN IF ~value.ok \/ after > Len(str) THEN Failed
                  ELSE IF str[after] = "}" THEN Parsed(JsonObject(more), after + 1)
                  ELSE IF str[after] = ","
                       THEN parseMembers(str, skipWhitespace(str, after + 1), more)
                  ELSE Failed

(* the elements of an array from position i on, after those in elements *)
parseElements(str, i, elements) ==
  LET value == parseValue(str, i)
      after == IF value.ok THEN skipWhitespace(str, value.next) ELSE 0
      more == Append(elements, value.value)
  IN IF ~value.ok \/ after > Len(str) THEN Failed
     ELSE IF str[after] = "]" THEN Parsed(JsonArray(more), after + 1)
     ELSE IF str[after] = "," THEN parseElements(str, after + 1, more)
     ELSE Failed

(* JSON.parse(str): one value with nothing but whitespace around it, a     *)
(* SyntaxError otherwise                                                    *)
JSONparse(str) ==
  LET parsed == parseValue(str, 1)
  IN IF parsed.ok /\ skipWhitespace(str, parsed.next) > Len(str)
     THEN [threw |-> FALSE, value |-> parsed.value]
     ELSE [threw |-> TRUE, value |-> <<>>]

(* parseAIJsonResponse closing the object at the first "}" *)
parseAIJsonResponseFirstClose(text) ==
  LET cleaned == trim(removeFences(text))
  IN JSONparse(substring(cleaned, indexOf(cleaned, "{"), indexOf(cleaned, "}") + 1))

parseAIJsonResponse(text) ==
  LET cleaned == trim(removeFences(text))
      jsonStart == indexOf(cleaned, "{")
      jsonEnd == lastIndexOf(cleaned, "}")
      arrayStart == indexOf(cleaned, "[")
      arrayEnd == lastIndexOf(cleaned, "]")
  IN IF jsonStart = -1 \/ jsonEnd = -1 \/ jsonEnd < jsonStart
     THEN IF arrayStart # -1 /\ arrayEnd # -1 /\ arrayEnd > arrayStart
          THEN JSONparse(substring(cleaned, arrayStart, arrayEnd + 1))
          ELSE [threw |-> TRUE, value |-> <<>>]  \* 'No valid JSON found in AI response'
     ELSE JSONparse(substring(cleaned, jsonStart, jsonEnd + 1))

(* What the backend wraps its answer in, and the answers *)
Prose == <<"H", "e", "r", "e", " ", "i", "s", " ", "t", "h", "e", " ", "r", "e", "s", "u", "l", "t", ":", " ">>
BracedProse == <<"N", "o", "t", "e", " ", "{", "d", "r", "a", "f", "t", "}", ":", " ">>
Wrappers == {JsonFence \o <<"\n">>, Fence \o <<"\n">>, Prose, BracedProse}
Closers == {Empty, <<"\n">> \o Fence, <<"\n", "D", "o", "n", "e">>, <<" ", "(", "s", "e", "e", " ", "{", "a", "}", ")">>}

SimpleObject == <<"{", "\"", "a", "\"", ":", " ", "7", "}">>
EmptyObject == <<"{", "}">>
NestedObject == <<"{", "\"", "a", "\"", ":", "{", "\"", "b", "\"", ":", "[", "]", "}", ",", " ", "\"", "a", "\"", ":", "{", "\"", "c", "\"", ":", "1", "0", "}", "}">>
FenceInString == <<"{", "\"", "a", "\"", ":", "\"", Backtick, Backtick, Backtick, "\"", "}">>
InsightsObject == <<"{", "\"", "s", "t", "r", "e", "n", "g", "t", "h", "s", "\"", ":", "[", "\"", "a", "\"", "]", ",", "\"", "w", "e", "a", "k", "n", "e", "s", "s", "e", "s", "\"", ":", "7", ",", "\"", "s", "k", "i", "l", "l", "G", "a", "p", "s", "\"", ":", "[", "]", "}">>
ArrayOfNumbers == <<"[", "7", ",", " ", "0", "]">>
ArrayOfObjects == <<"[", "{", "\"", "a", "\"", ":", "1", "}", ",", "{", "\"", "b", "\"", ":", "2", "}", "]">>
CutObject == <<"{", "\"", "a", "\"", ":", " ", "7">>
NumberThenBrace == <<"7", " ", "{">>
ResponseBodies ==
  {SimpleObject, EmptyObject, NestedObject, FenceInString, InsightsObject,
   ArrayOfNumbers, ArrayOfObjects, CutObject, NumberThenBrace, Empty}

RECURSIVE concat(_)
concat(strs) == IF strs = <<>> THEN <<>> ELSE Head(strs) \o concat(Tail(strs))

(* a response: wrappers, then the answer, then a closer *)
Responses(maxWrappers) ==
  [prefix : SeqsUpTo(Wrappers, maxWrappers), body : ResponseBodies,
   suffix : Closers]
responseText(response) ==
  concat(response.prefix) \o response.body \o response.suffix

----------------------------------------------------------------------------
(* Insight generator.  A resume is its list of skills, whose names are     *)
(* optional in the schema; a job is the names of its required skills and   *)
(* its remote flag.  An insight of the fallback is the template of its     *)
(* text with the numbers and the names the template is filled with.         *)

(* array.slice(0, n) *)
slice(arr, n) == SubSeq(arr, 1, Min(n, Len(arr)))

Insight(template, numbers, names) ==
  [template |-> template, numbers |-> numbers, names |-> names]

SkillGap(skill) ==
  [skill |-> skill, importance |-> 5, currentLevel |-> "Beginner",
   requiredLevel |-> "Intermediate",
   learningPath |-> Insight("Consider online courses, tutorials, or hands-on projects to develop ${skill} skills", <<>>, <<skill>>)]

(* the skill gaps without the cut at three *)
skillGapsOfAll(missingSkills) ==
  [i \in 1..Len(missingSkills) |-> SkillGap(missingSkills[i])]

(* missingSkills.slice(0, 3).forEach(skill => skillGaps.push({...})) *)
skillGapsOf(missingSkills) ==
  [i \in 1..Min(3, Len(missingSkills)) |-> SkillGap(missingSkills[i])]

generateFallbackInsights(resume, job, matchScore) ==
  IF \E i \in 1..Len(resume.skills) : ~IsSome(resume.skills[i])
  THEN [threw |-> TRUE, value |-> <<>>]  \* TypeError: s.name is undefined
  ELSE
  LET resumeSkills == [i \in 1..Len(resume.skills) |-> toLowerCase(Get(resume.skills[i]))]
      jobSkills == [i \in 1..Len(job.skills) |-> toLowerCase(job.skills[i])]
      held(jobSkill) ==
        \E i \in 1..Len(resumeSkills) :
          includes(resumeSkills[i], jobSkill) \/ includes(jobSkill, resumeSkills[i])
      matchedSkills == SelectSeq(jobSkills, LAMBDA s : held(s))
      missingSkills == SelectSeq(jobSkills, LAMBDA s : ~held(s))
      strengths ==
        (IF Len(matchedSkills) > 0
         THEN <<Insight("Strong match with ${matchedSkills.length} required skills", <<Len(matchedSkills)>>, <<>>),
                Insight("Proficient in: ${matchedSkills.slice(0, 3).join(', ')}", <<>>, slice(matchedSkills, 3))>>
         ELSE <<>>)
        \o (IF matchScore.experienceMatch >= 80
            THEN <<Insight("Meets or exceeds experience requirements", <<>>, <<>>)>> ELSE <<>>)
        \o (IF matchScore.educationMatch >= 80
            THEN <<Insight("Educational background aligns with requirements", <<>>, <<>>)>> ELSE <<>>)
      weaknesses ==
        (IF Len(missingSkills) > 0
         THEN <<Insight("Missing ${missingSkills.length} key skills: ${missingSkills.slice(0, 3).join(', ')}",
                        <<Len(missingSkills)>>, slice(missingSkills, 3))>>
         ELSE <<>>)
        \o (IF matchScore.experienceMatch < 50
            THEN <<Insight("Experience level below job requirements", <<>>, <<>>)>> ELSE <<>>)
        \o (IF matchScore.locationMatch < 50 /\ ~job.remote
            THEN <<Insight("Location may not be ideal for this position", <<>>, <<>>)>> ELSE <<>>)
      recommendations ==
        (IF Len(missingSkills) > 0
         THEN <<Insight("Consider learning: ${missingSkills.slice(0, 2).join(', ')}", <<>>, slice(missingSkills, 2))>>
         ELSE <<>>)
        \o (IF matchScore.overallScore < 70
            THEN <<Insight("Focus on building relevant experience in this field", <<>>, <<>>)>> ELSE <<>>)
        \o <<Insight("Tailor your resume to highlight relevant achievements", <<>>, <<>>),
             Insight("Prepare specific examples of your skills in action", <<>>, <<>>)>>
      interviewTips ==
        <<Insight("Research the company and role thoroughly", <<>>, <<>>),
          Insight("Prepare examples that demonstrate your key skills", <<>>, <<>>),
          Insight("Ask thoughtful questions about the role and team", <<>>, <<>>)>>
        \o (IF Len(missingSkills) > 0
            THEN <<Insight("Be ready to discuss your plan for learning: ${missingSkills[0]}", <<>>, <<missingSkills[1]>>)>>
            ELSE <<>>)
      skillGaps == skillGapsOf(missingSkills)
  IN [threw |-> FALSE,
      value |-> [strengths |-> strengths, weaknesses |-> weaknesses,
                 recommendations |-> recommendations,
                 interviewTips |-> interviewTips, skillGaps |-> skillGaps]]

StrengthsKey == <<"s", "t", "r", "e", "n", "g", "t", "h", "s">>
WeaknessesKey == <<"w", "e", "a", "k", "n", "e", "s", "s", "e", "s">>
RecommendationsKey == <<"r", "e", "c", "o", "m", "m", "e", "n", "d", "a", "t", "i", "o", "n", "s">>
InterviewTipsKey == <<"i", "n", "t", "e", "r", "v", "i", "e", "w", "T", "i", "p", "s">>
SkillGapsKey == <<"s", "k", "i", "l", "l", "G", "a", "p", "s">>

(* insights[key] after the defaults: the list the backend answered, or []  *)
(* when the field is missing or no array                                    *)
listField(insights, key) ==
  IF /\ insights.type = "object"
     /\ key \in DOMAIN insights.val
     /\ insights.val[key].type = "array"
  THEN insights.val[key].val
  ELSE <<>>

(* every failure in the try block, of the backend or of the sanitiser,     *)
(* ends in generateFallbackInsights                                         *)
generateAIInsights(resume, job, matchScore, backend) ==
  IF backend.kind = "text" /\ ~parseAIJsonResponse(backend.text).threw
  THEN LET insights == parseAIJsonResponse(backend.text).value
       IN [threw |-> FALSE,
           value |-> [strengths |-> listField(insights, StrengthsKey),
                      weaknesses |-> listField(insights, WeaknessesKey),
                      recommendations |-> listField(insights, RecommendationsKey),
                      interviewTips |-> listField(insights, InterviewTipsKey),
                      skillGaps |-> listField(insights, SkillGapsKey),
                      parsed |-> insights]]
  ELSE generateFallbackInsights(resume, job, matchScore)

OptionalSkillNames == {None} \cup {Some(n) : n \in ResumeSkillNames}
InsightResumes == [skills : SeqsUpTo(OptionalSkillNames, MaxResumeSkills)]
InsightJobs ==
  [skills : {<<>>, <<Go, SQL>>, <<SQL, Go, Golang, SQL>>}, remote : BOOLEAN]
InsightScores ==
  [overallScore : {69, 70}, experienceMatch : {49, 50, 80},
   educationMatch : {0, 100}, locationMatch : {49, 50}]
InsightBackends ==
  {[kind |-> "quota", text |-> <<>>], [kind |-> "error", text |-> <<>>]}
    \cup {[kind |-> "text", text |-> responseText(r)] : r \in Responses(MaxWrappers)}

----------------------------------------------------------------------------
(* Structured extractor: the rule-based extraction and the extraction by   *)
(* the generative backend that falls back on it.  The resume texts of the  *)
(* model hold no "@", no digit, no "." and no "/", so that the patterns    *)
(* for e-mail address, phone number, profile links and website match       *)
(* nothing in them.                                                         *)

(* the number of lines of a resume text *)
MaxLines == 3

(* the characters U+2022 and U+25CF, which no TLA+ string can hold *)
Bullet == "BULLET"
BlackCircle == "BLACKCIRCLE"

(* str.split(separator) for separators of one character: the pieces       *)
(* between the separator characters                                         *)
splitAt(str, seps) ==
  LET cuts == {i \in 1..Len(str) : str[i] \in seps}
      cut(k) == IF k = 0 THEN 0
                ELSE IF k > Cardinality(cuts) THEN Len(str) + 1
                ELSE CHOOSE i \in cuts : Cardinality({j \in cuts : j < i}) = k - 1
  IN [k \in 1..(Cardinality(cuts) + 1) |-> SubSeq(str, cut(k - 1) + 1, cut(k) - 1)]

(* text.split(/\r?\n/): a carriage return in front of the line feed is     *)
(* part of the separator                                                    *)
dropReturns(pieces) ==
  [k \in 1..Len(pieces) |->
     IF k < Len(pieces) /\ pieces[k] # <<>> /\ pieces[k][Len(pieces[k])] = "\r"
     THEN SubSeq(pieces[k], 1, Len(pieces[k]) - 1)
     ELSE pieces[k]]

splitLines(text) == dropReturns(splitAt(text, {"\n"}))

(* a || b on strings *)
OrElse(a, b) == IF a # <<>> THEN a ELSE b

(* \w *)
IsWordChar(c) ==
  \/ \E i \in 1..26 : Uppers[i] = c \/ Lowers[i] = c
  \/ IsDigit(c)
  \/ c = "_"

SkillsWord == <<"s", "k", "i", "l", "l", "s">>
TechnicalSkillsWord == <<"t", "e", "c", "h", "n", "i", "c", "a", "l", " ", "s", "k", "i", "l", "l", "s">>
ProjectsWord == <<"p", "r", "o", "j", "e", "c", "t", "s">>
ExperienceWord == <<"e", "x", "p", "e", "r", "i", "e", "n", "c", "e">>
WorkExperienceWord == <<"w", "o", "r", "k", " ", "e", "x", "p", "e", "r", "i", "e", "n", "c", "e">>
EducationWord == <<"e", "d", "u", "c", "a", "t", "i", "o", "n">>
CertificationsWord == <<"c", "e", "r", "t", "i", "f", "i", "c", "a", "t", "i", "o", "n", "s">>
CertificationWord == <<"c", "e", "r", "t", "i", "f", "i", "c", "a", "t", "i", "o", "n">>
LanguagesWord == <<"l", "a", "n", "g", "u", "a", "g", "e", "s">>

(* the alternatives of sectionRegex in the order the pattern tries them *)
SectionWords ==
  <<SkillsWord, <<"s", "k", "i", "l", "l">>, TechnicalSkillsWord, <<"t", "e", "c", "h", "n", "i", "c", "a", "l", " ", "s", "k", "i", "l", "l">>,
    ProjectsWord, <<"p", "r", "o", "j", "e", "c", "t">>, ExperienceWord, WorkExperienceWord, EducationWord,
    CertificationsWord, CertificationWord, LanguagesWord, <<"l", "a", "n", "g", "u", "a", "g", "e">>>>

(* the word is at the head of the lower-cased line and a word boundary     *)
(* follows it                                                               *)
headedBy(lower, word) ==
  /\ startsWith(lower, 1, word)
  /\ (Len(lower) = Len(word) \/ ~IsWordChar(lower[Len(word) + 1]))

firstHeading(lower, matching) ==
  IF matching = {} THEN None
  ELSE Some(SectionWords[CHOOSE k \in matching : \A j \in matching : k <= j])

(* line.match(sectionRegex): m[1].toLowerCase(), None when there is no match *)
sectionOf(line) ==
  firstHeading(toLowerCase(line),
               {k \in 1..Len(SectionWords) : headedBy(toLowerCase(line), SectionWords[k])})

Other == <<"o", "t", "h", "e", "r">>

(* the loop over the lines: a header line opens its section and is not     *)
(* stored, every other line is stored in the current section                *)
RECURSIVE assign(_, _, _)
assign(lines, current, sections) ==
  IF lines = <<>> THEN sections
  ELSE IF IsSome(sectionOf(Head(lines)))
       THEN assign(Tail(lines), Get(sectionOf(Head(lines))),
                   IF Get(sectionOf(Head(lines))) \in DOMAIN sections THEN sections
                   ELSE (Get(sectionOf(Head(lines))) :> <<>>) @@ sections)
       ELSE assign(Tail(lines), current,
                   IF current \in DOMAIN sections
                   THEN [sections EXCEPT ![current] = Append(@, Head(lines))]
                   ELSE (current :> <<Head(lines)>>) @@ sections)

(* sections[first] || sections[second] || [] *)
eitherSection(sections, first, second) ==
  IF first \in DOMAIN sections THEN sections[first]
  ELSE IF second \in DOMAIN sections THEN sections[second]
  ELSE <<>>

(* splitList: bullets, hyphens and asterisks become spaces, the pieces     *)
(* between commas and pipes are trimmed, empty and long pieces are dropped *)
splitList(s) ==
  LET spaced == [i \in 1..Len(s) |->
                   IF s[i] \in {Bullet, BlackCircle, "-", "*"} THEN " " ELSE s[i]]
      pieces == splitAt(spaced, {",", "|"})
      trimmed == [k \in 1..Len(pieces) |-> trim(pieces[k])]
  IN SelectSeq(trimmed, LAMBDA x : Len(x) > 0 /\ Len(x) < 80)

(* l.replace(/^[-•\*]\s*/, '') *)
stripBullet(line) ==
  IF line # <<>> /\ line[1] \in {"-", Bullet, "*"}
  THEN SubSeq(line, skipWhitespace(line, 2), Len(line))
  ELSE line

(* l.split(separator)[0] *)
before(line, separator) ==
  IF includes(line, separator)
  THEN SubSeq(line, 1,
              (CHOOSE i \in 1..Len(line) :
                 /\ startsWith(line, i, separator)
                 /\ \A j \in 1..(i - 1) : ~startsWith(line, j, separator)) - 1)
  ELSE line

(* text.match(pattern)?.[0] || '' for the e-mail, phone, LinkedIn, GitHub  *)
(* and website patterns: no match in a text without "@", digit, "." or "/" *)
contactOf(text) == Empty

(* text.split(/\r?\n/).map(l => l.trim()).filter(Boolean) *)
trimAll(pieces) == [k \in 1..Len(pieces) |-> trim(pieces[k])]

linesOf(text) == SelectSeq(trimAll(splitLines(text)), LAMBDA l : l # <<>>)

(* the record built from the lines and the sections of the text *)
extraction(text, lines, sections) ==
  LET nameLine == IF lines = <<>> THEN Empty ELSE lines[1]
      skillsBlock == joinWords(eitherSection(sections, SkillsWord, TechnicalSkillsWord))
      skillNames == distinct(splitList(skillsBlock), {})
      stripped(section) == [k \in 1..Len(section) |-> stripBullet(section[k])]
      projectsLines ==
        SelectSeq(stripped(eitherSection(sections, ProjectsWord, ProjectsWord)),
                  LAMBDA l : Len(l) > 0)
      expLines ==
        SelectSeq(stripped(eitherSection(sections, ExperienceWord, WorkExperienceWord)),
                  LAMBDA l : Len(l) > 0)
      eduLines == stripped(eitherSection(sections, EducationWord, EducationWord))
      certLines == stripped(eitherSection(sections, CertificationsWord, CertificationWord))
      langLines == joinWords(eitherSection(sections, LanguagesWord, LanguagesWord))
  IN [personalInfo |->
        [name |-> nameLine, email |-> Empty, phone |-> Empty, location |-> Empty,
         linkedin |-> Empty, github |-> Empty, website |-> contactOf(text)],
      summary |-> Empty,
      experience |->
        slice([k \in 1..Len(expLines) |->
                 [company |-> Empty,
                  position |-> slice(before(expLines[k], <<" ", "a", "t", " ">>), 80),
                  duration |-> Empty, description |-> expLines[k],
                  startDate |-> Empty, endDate |-> Empty, current |-> FALSE]], 20),
      education |->
        slice([k \in 1..Len(eduLines) |->
                 [institution |-> eduLines[k], degree |-> Empty, field |-> Empty,
                  gpa |-> Empty]], 10),
      skills |->
        slice([k \in 1..Len(skillNames) |->
                 [name |-> skillNames[k], category |-> Empty, level |-> Empty]], 100),
      certifications |->
        slice([k \in 1..Len(certLines) |->
                 [name |-> certLines[k], issuer |-> Empty, date |-> Empty,
                  expiryDate |-> Empty]], 20),
      projects |->
        slice([k \in 1..Len(projectsLines) |->
                 [name |-> slice(trim(before(projectsLines[k], <<":">>)), 80),
                  description |-> projectsLines[k],
                  technologies |-> splitList(projectsLines[k]),
                  url |-> Empty, startDate |-> Empty, endDate |-> Empty]], 20),
      languages |->
        slice([k \in 1..Len(splitList(langLines)) |->
                 [name |-> splitList(langLines)[k], proficiency |-> Empty]], 20),
      achievements |-> <<>>]

ruleBasedExtraction(text) ==
  extraction(text, linesOf(text), assign(linesOf(text), Other, <<>>))

basicTextExtraction(text) ==
  [personalInfo |->
     [name |-> Empty, email |-> contactOf(text), phone |-> contactOf(text),
      linkedin |-> contactOf(text), github |-> contactOf(text), website |-> Empty],
   summary |-> Empty, education |-> <<>>, projects |-> <<>>, skills |-> <<>>,
   achievements |-> <<>>]

(* the record of the catch block: the rule-based extraction merged with    *)
(* the contact details of the basic extraction                              *)
mergedExtraction(text) ==
  LET ruleBased == ruleBasedExtraction(text)
      minimal == basicTextExtraction(text)
  IN [personalInfo |->
        [name |-> OrElse(ruleBased.personalInfo.name, minimal.personalInfo.name),
         email |-> OrElse(minimal.personalInfo.email, ruleBased.personalInfo.email),
         phone |-> OrElse(minimal.personalInfo.phone, ruleBased.personalInfo.phone),
         location |-> ruleBased.personalInfo.location,
         linkedin |-> OrElse(minimal.personalInfo.linkedin, ruleBased.personalInfo.linkedin),
         github |-> OrElse(minimal.personalInfo.github, ruleBased.personalInfo.github),
         website |-> ruleBased.personalInfo.website],
      summary |-> ruleBased.summary,
      experience |-> ruleBased.experience,
      education |-> ruleBased.education,
      skills |-> ruleBased.skills,
      certifications |-> ruleBased.certifications,
      projects |-> ruleBased.projects,
      languages |-> ruleBased.languages,
      achievements |-> ruleBased.achievements]

(* extractStructuredData: the parsed answer of the backend, whatever JSON  *)
(* value it is, and the merged record when the backend or JSON.parse       *)
(* raises                                                                   *)
extractStructuredData(text, backend) ==
  LET fencedClean == trim(removeFences(backend.text))
      jsonStart == indexOf(fencedClean, "{")
      jsonEnd == lastIndexOf(fencedClean, "}")
      cleanJson == substring(fencedClean, jsonStart, jsonEnd + 1)
  IN IF backend.kind = "text" /\ ~JSONparse(cleanJson).threw
     THEN [threw |-> FALSE, value |-> JSONparse(cleanJson).value]
     ELSE [threw |-> FALSE, value |-> mergedExtraction(text)]

React == <<"R", "e", "a", "c", "t">>
SkillsInline == <<"S", "k", "i", "l", "l", "s", ":", " ", "P", "y", "t", "h", "o", "n", ",", " ", "R", "e", "a", "c", "t", ",", " ", "S", "Q", "L">>
ResumeLines ==
  {SkillsInline, <<"S", "K", "I", "L", "L", "S">>, <<" ", "P", "y", "t", "h", "o", "n", ",", " ", "R", "e", "a", "c", "t", " ", "|", " ", "S", "Q", "L", ",", " ", "P", "y", "t", "h", "o", "n">> \o <<"\r">>,
   <<"W", "o", "r", "k", " ", "E", "x", "p", "e", "r", "i", "e", "n", "c", "e", " ", "-">>, <<"P", "r", "o", "j", "e", "c", "t", "s">>, <<"*">> \o <<" ", "C", "h", "a", "t", " ", "a", "t", " ", "A", "c", "m", "e", ":", " ", "R", "e", "a", "c", "t", ",", " ", "S", "Q", "L">>,
   <<"E", "d", "u", "c", "a", "t", "i", "o", "n", ":">>}

RECURSIVE joinLines(_)
joinLines(lines) ==
  IF lines = <<>> THEN <<>>
  ELSE IF Len(lines) = 1 THEN lines[1]
  ELSE lines[1] \o <<"\n">> \o joinLines(Tail(lines))

(* the resume texts of at most maxLines lines *)
ResumeTexts(maxLines) ==
  {text \in {joinLines(lines) : lines \in SeqsUpTo(ResumeLines, maxLines)} :
     \A i \in 1..Len(text) : text[i] \notin {"@", ".", "/"} /\ ~IsDigit(text[i])}

ExtractionBackends ==
  {[kind |-> "quota", text |-> <<>>], [kind |-> "error", text |-> <<>>]}
    \cup {[kind |-> "text", text |-> responseText(r)] : r \in Responses(MaxWrappers - 1)}

----------------------------------------------------------------------------
(* Store.  The collections of one user: db.resumes, db.matches and          *)
(* db.applications and db.jobs are the records in the order of their       *)
(* insertion, a record's position is its _id.  A deleted resume keeps its  *)
(* position with stored = FALSE, so that an _id is never given twice.      *)
(* requests holds the route handlers that are waiting on an await.         *)

MaxResumes == 3
MaxRequests == 2
MaxJobs == 2

store == <<db, requests>>
service == <<op, args, result>>

EmptyDb == [resumes |-> <<>>, matches |-> <<>>, applications |-> <<>>, jobs |-> <<>>]

Slots == 1..MaxRequests
Idle == [kind |-> "idle", pc |-> "idle", id |-> 0]
Waiting(kind, pc, id) == [kind |-> kind, pc |-> pc, id |-> id]

(* new Resume({...}): isActive defaults to true *)
NewResume == [isActive |-> TRUE, stored |-> TRUE]

IsStored(resumes, id) == id \in DOMAIN resumes /\ resumes[id].stored

(* the records Resume.findOne({ user, isActive: true }) can yield *)
findActive(resumes) ==
  {id \in DOMAIN resumes : resumes[id].stored /\ resumes[id].isActive}

(* Resume.updateMany({ user }, { isActive: false }) *)
deactivateAll(resumes) ==
  [id \in DOMAIN resumes |-> [resumes[id] EXCEPT !.isActive = FALSE]]

(* the uploads that have not stored their record yet *)
UploadsInFlight == {r \in Slots : requests[r].kind = "upload"}

(* Match records.  breakdown and aiInsights hold the score they were       *)
(* generated for, or nothing.                                              *)
DefaultMinScore == 30
MatchScores == {20, 40, 85}

NewMatch(job, resume, matchScore, breakdown, insights) ==
  [job |-> job, resume |-> resume, matchScore |-> matchScore,
   breakdown |-> breakdown, aiInsights |-> insights, status |-> "new"]

MatchesOf(matches, job) == {i \in DOMAIN matches : matches[i].job = job}

(* saveMatch: always inserts; the unique index on (user, job) rejects the  *)
(* insertion of a second record of the pair and save() raises              *)
saveMatch(matches, job, resume, matchScore, breakdown, insights) ==
  IF MatchesOf(matches, job) # {}
  THEN [threw |-> TRUE, matches |-> matches]
  ELSE [threw |-> FALSE,
        matches |-> Append(matches, NewMatch(job, resume, matchScore, breakdown, insights))]

(* Match.findOneAndUpdate({ user, job }, { user, job, resume, matchScore,  *)
(* status: 'applied' }, { upsert: true })                                  *)
upsertApplied(matches, job, resume, matchScore) ==
  IF MatchesOf(matches, job) # {}
  THEN LET i == CHOOSE i \in MatchesOf(matches, job) : TRUE
       IN [matches EXCEPT ![i].resume = resume, ![i].matchScore = matchScore,
                          ![i].status = "applied"]
  ELSE Append(matches, [NewMatch(job, resume, matchScore, None, None)
                          EXCEPT !.status = "applied"])

(* matches.sort((a, b) => b.matchScore - a.matchScore): stable, highest    *)
(* score first                                                             *)
RECURSIVE insertByScore(_, _)
insertByScore(sorted, match) ==
  IF sorted = <<>> THEN <<match>>
  ELSE IF Head(sorted).matchScore >= match.matchScore
       THEN <<Head(sorted)>> \o insertByScore(Tail(sorted), match)
       ELSE <<match>> \o sorted

RECURSIVE sortByScore(_)
sortByScore(found) ==
  IF found = <<>> THEN <<>>
  ELSE insertByScore(sortByScore(SubSeq(found, 1, Len(found) - 1)), found[Len(found)])

(* the jobs of Job.find({ status: 'active' }), in the order of their _id *)
activeJobs(jobs) ==
  SelectSeq([job \in 1..Len(jobs) |-> job], LAMBDA job : jobs[job].status = "active")

(* findJobMatches: raises without an active resume; otherwise one match    *)
(* object, without a resume field, for every active job whose score is at  *)
(* least the minimum, sorted by score.  scores[job] is the overall score   *)
(* calculateJobMatchScore gives for the job.  malformed holds the postings  *)
(* for which generateAIInsights raises: its catch block calls               *)
(* generateFallbackInsights, which raises a TypeError for a posting without *)
(* a requirements.skills list or with a skill without a name.  The loop has *)
(* no try of its own, and the catch around it raises the error again.       *)
findJobMatches(resumes, jobs, scores, malformed, minScore) ==
  IF findActive(resumes) = {}
  THEN [threw |-> TRUE, value |-> <<>>]
  ELSE LET kept == SelectSeq(activeJobs(jobs), LAMBDA job : scores[job] >= minScore)
       IN IF \E k \in 1..Len(kept) : kept[k] \in malformed
          THEN [threw |-> TRUE, value |-> <<>>]
          ELSE
          [threw |-> FALSE,
           value |-> sortByScore([k \in 1..Len(kept) |->
                       [job |-> kept[k], matchScore |-> scores[kept[k]],
                        breakdown |-> Some(scores[kept[k]]),
                        insights |-> Some(scores[kept[k]])]])]

(* the loop of POST /api/matches/generate: match.resume._id is evaluated   *)
(* before saveMatch is called and raises a TypeError when the match object *)
(* has no resume                                                           *)
RECURSIVE saveMatches(_, _, _)
saveMatches(matches, found, saved) ==
  IF found = <<>> THEN [threw |-> FALSE, matches |-> matches, saved |-> saved]
  ELSE LET match == Head(found)
       IN IF "resume" \notin DOMAIN match
          THEN [threw |-> TRUE, matches |-> matches, saved |-> saved]
          ELSE LET savedMatch == saveMatch(matches, match.job, match.resume,
                                           match.matchScore, match.breakdown,
                                           match.insights)
               IN IF savedMatch.threw
                  THEN [threw |-> TRUE, matches |-> matches, saved |-> saved]
                  ELSE saveMatches(savedMatch.matches, Tail(found), saved + 1)

JobStatuses == {"active", "closed"}
NewJob(status) == [status |-> status, applicationsCount |-> 0]

----------------------------------------------------------------------------
(* Calls on the service.  A call is made when the service is idle and the  *)
(* service keeps nothing once the call has returned.                       *)

Init ==
  /\ op = "none"
  /\ args = <<>>
  /\ result = <<>>
  /\ db = EmptyDb
  /\ requests = [r \in Slots |-> Idle]

CallCosineSimilarity ==
  /\ op = "none"
  /\ UNCHANGED store
  /\ \E vecA \in Vectors, vecB \in Vectors :
       /\ op' = "cosineSimilarity"
       /\ args' = [vecA |-> vecA, vecB |-> vecB]
       /\ result' = cosineSimilarity(vecA, vecB)

CallCalculateSkillsMatchFallback ==
  /\ op = "none"
  /\ UNCHANGED store
  /\ \E resumeSkills \in ResumeSkillLists, jobSkills \in JobSkillLists :
       /\ op' = "calculateSkillsMatchFallback"
       /\ args' = [resumeSkills |-> resumeSkills, jobSkills |-> jobSkills]
       /\ result' = calculateSkillsMatchFallback(resumeSkills, jobSkills)

CallCalculateSkillsMatch ==
  /\ op = "none"
  /\ UNCHANGED store
  /\ \E resumeSkills \in ResumeSkillLists, jobSkills \in JobSkillLists,
        backend \in Backends :
       /\ op' = "calculateSkillsMatch"
       /\ args' = [resumeSkills |-> resumeSkills, jobSkills |-> jobSkills,
                   backend |-> backend]
       /\ result' = calculateSkillsMatch(resumeSkills, jobSkills, backend)

CallCalculateExperienceMatch ==
  /\ op = "none"
  /\ UNCHANGED store
  /\ \E resumeExperience \in ExperienceLists, jobExperience \in JobExperiences :
       /\ op' = "calculateExperienceMatch"
       /\ args' = [resumeExperience |-> resumeExperience,
                   jobExperience |-> jobExperience]
       /\ result' = calculateExperienceMatch(resumeExperience, jobExperience)

CallCalculateEducationMatch ==
  /\ op = "none"
  /\ UNCHANGED store
  /\ \E resumeEducation \in EducationLists, jobEducation \in JobEducations :
       /\ op' = "calculateEducationMatch"
       /\ args' = [resumeEducation |-> resumeEducation,
                   jobEducation |-> jobEducation]
       /\ result' = calculateEducationMatch(resumeEducation, jobEducation)

CallCalculateLocationMatch ==
  /\ op = "none"
  /\ UNCHANGED store
  /\ \E personalInfo \in PersonalInfos, jobLocation \in JobLocations :
       /\ op' = "calculateLocationMatch"
       /\ args' = [personalInfo |-> personalInfo, jobLocation |-> jobLocation]
       /\ result' = calculateLocationMatch(personalInfo, jobLocation)

MatchCall(resume, job, backend) ==
  /\ op' = "calculateJobMatchScore"
  /\ args' = [resume |-> resume, job |-> job, backend |-> backend]
  /\ result' = calculateJobMatchScore(resume, job, backend)

CallCalculateJobMatchScore ==
  /\ op = "none"
  /\ UNCHANGED store
  /\ \/ \E resume \in MatchResumes, job \in MatchJobs, backend \in MatchBackends :
          MatchCall(resume, job, backend)
     \/ \E resume \in EndToEndResumes, job \in EndToEndJobs,
           backend \in MatchBackends :
          MatchCall(resume, job, backend)

CallGenerateFallbackEmbedding ==
  /\ op = "none"
  /\ UNCHANGED store
  /\ \E text \in EmbeddingTexts :
       /\ op' = "generateFallbackEmbedding"
       /\ args' = [text |-> text]
       /\ result' = generateFallbackEmbedding(text)

CallGenerateEmbedding ==
  /\ op = "none"
  /\ UNCHANGED store
  /\ \E text \in EmbeddingTexts, backend \in EmbeddingBackends :
       /\ op' = "generateEmbedding"
       /\ args' = [text |-> text, backend |-> backend]
       /\ result' = generateEmbedding(text, backend)

CallParseAIJsonResponse ==
  /\ op = "none"
  /\ UNCHANGED store
  /\ \E response \in Responses(MaxWrappers) :
       /\ op' = "parseAIJsonResponse"
       /\ args' = [text |-> responseText(response), response |-> response]
       /\ result' = parseAIJsonResponse(responseText(response))

InsightCall(resume, job, matchScore, backend) ==
  /\ op' = "generateAIInsights"
  /\ args' = [resume |-> resume, job |-> job, matchScore |-> matchScore,
              backend |-> backend]
  /\ result' = generateAIInsights(resume, job, matchScore, backend)

CallGenerateAIInsights ==
  /\ op = "none"
  /\ UNCHANGED store
  /\ \/ \E resume \in InsightResumes, job \in InsightJobs,
           matchScore \in InsightScores, backend \in InsightBackends :
          /\ backend.kind # "text"
          /\ InsightCall(resume, job, matchScore, backend)
     \/ \E backend \in InsightBackends :
          /\ backend.kind = "text"
          /\ InsightCall([skills |-> <<Some(go)>>],
                         [skills |-> <<Go, SQL>>, remote |-> FALSE],
                         [overallScore |-> 69, experienceMatch |-> 50,
                          educationMatch |-> 0, locationMatch |-> 50],
                         backend)

CallRuleBasedExtraction ==
  /\ op = "none"
  /\ UNCHANGED store
  /\ \E text \in ResumeTexts(MaxLines) :
       /\ op' = "ruleBasedExtraction"
       /\ args' = [text |-> text]
       /\ result' = ruleBasedExtraction(text)

ExtractCall(text, backend) ==
  /\ op' = "extractStructuredData"
  /\ args' = [text |-> text, backend |-> backend]
  /\ result' = extractStructuredData(text, backend)

CallExtractStructuredData ==
  /\ op = "none"
  /\ UNCHANGED store
  /\ \/ \E text \in ResumeTexts(MaxLines - 1), backend \in ExtractionBackends :
          /\ backend.kind # "text"
          /\ ExtractCall(text, backend)
     \/ \E backend \in ExtractionBackends :
          /\ backend.kind = "text"
          /\ ExtractCall(SkillsInline, backend)

Return ==
  /\ op # "none"
  /\ UNCHANGED store
  /\ op' = "none"
  /\ args' = <<>>
  /\ result' = <<>>

Next ==
  \/ CallCosineSimilarity
  \/ CallCalculateSkillsMatchFallback
  \/ CallCalculateSkillsMatch
  \/ CallCalculateExperienceMatch
  \/ CallCalculateEducationMatch
  \/ CallCalculateLocationMatch
  \/ CallCalculateJobMatchScore
  \/ CallGenerateFallbackEmbedding
  \/ CallGenerateEmbedding
  \/ Return

Spec == Init /\ [][Next]_vars

(* The calls on the response sanitiser, the extractor and the insight      *)
(* generator                                                                *)
TextNext ==
  \/ CallParseAIJsonResponse
  \/ CallGenerateAIInsights
  \/ CallRuleBasedExtraction
  \/ CallExtractStructuredData
  \/ Return

TextSpec == Init /\ [][TextNext]_vars

----------------------------------------------------------------------------
(* Resume routes.  A handler runs from one await to the next without       *)
(* interruption; the handlers of other requests run in between.            *)

(* POST /api/resumes/upload up to the answer of Resume.findOne *)
UploadFindActive ==
  \E r \in Slots :
    /\ requests[r] = Idle
    /\ Len(db.resumes) + Cardinality(UploadsInFlight) < MaxResumes
    /\ \E existingResume \in findActive(db.resumes) \cup {0} :
         /\ existingResume = 0 => findActive(db.resumes) = {}
         /\ requests' = [requests EXCEPT ![r] =
              Waiting("upload", IF existingResume = 0 THEN "parse" ELSE "archive",
                      existingResume)]
    /\ UNCHANGED <<db, service>>

(* existingResume.archive(): isActive = false and save().  The save of a   *)
(* record that was deleted meanwhile either changes nothing or raises,     *)
(* which ends the request with 500.                                        *)
UploadArchive ==
  \E r \in Slots :
    /\ requests[r].kind = "upload" /\ requests[r].pc = "archive"
    /\ IF IsStored(db.resumes, requests[r].id)
       THEN /\ db' = [db EXCEPT !.resumes[requests[r].id].isActive = FALSE]
            /\ requests' = [requests EXCEPT ![r].pc = "parse"]
       ELSE /\ db' = db
            /\ \/ requests' = [requests EXCEPT ![r].pc = "parse"]
               \/ requests' = [requests EXCEPT ![r] = Idle]
    /\ UNCHANGED service

(* the file is stored and parsed, the new record is saved: 201 *)
UploadSave ==
  \E r \in Slots :
    /\ requests[r].kind = "upload" /\ requests[r].pc = "parse"
    /\ db' = [db EXCEPT !.resumes = Append(@, NewResume)]
    /\ requests' = [requests EXCEPT ![r] = Idle]
    /\ UNCHANGED service

(* parsing or saving raises: 500, no record is stored *)
UploadFail ==
  \E r \in Slots :
    /\ requests[r].kind = "upload" /\ requests[r].pc = "parse"
    /\ requests' = [requests EXCEPT ![r] = Idle]
    /\ UNCHANGED <<db, service>>

(* an id for which Resume.findOneAndUpdate({ _id: id, user }) finds nothing *)
(* at any time: the id of no record, or of a record of another user        *)
UnknownId == 0

(* PUT /api/resumes/:id/activate up to the answer of Resume.updateMany *)
ActivateDeactivateAll ==
  \E r \in Slots, id \in (1..MaxResumes) \cup {UnknownId} :
    /\ requests[r] = Idle
    /\ db' = [db EXCEPT !.resumes = deactivateAll(@)]
    /\ requests' = [requests EXCEPT ![r] = Waiting("activate", "activate", id)]
    /\ UNCHANGED service

(* Resume.findOneAndUpdate({ _id: id, user }, { isActive: true }): 200, or *)
(* 404 when there is no such record                                        *)
ActivateSelected ==
  \E r \in Slots :
    /\ requests[r].kind = "activate"
    /\ db' = IF IsStored(db.resumes, requests[r].id)
             THEN [db EXCEPT !.resumes[requests[r].id].isActive = TRUE]
             ELSE db
    /\ requests' = [requests EXCEPT ![r] = Idle]
    /\ UNCHANGED service

(* DELETE /api/resumes/:id up to the answer of Resume.findOne; a request   *)
(* for a record that is not stored is answered with 404 at once            *)
DeleteFind ==
  \E r \in Slots, id \in 1..MaxResumes :
    /\ requests[r] = Idle
    /\ IsStored(db.resumes, id)
    /\ requests' = [requests EXCEPT ![r] = Waiting("delete", "delete", id)]
    /\ UNCHANGED <<db, service>>

(* Resume.findByIdAndDelete(id) *)
DeleteRecord ==
  \E r \in Slots :
    /\ requests[r].kind = "delete"
    /\ db' = IF IsStored(db.resumes, requests[r].id)
             THEN [db EXCEPT !.resumes[requests[r].id] =
                     [isActive |-> FALSE, stored |-> FALSE]]
             ELSE db
    /\ requests' = [requests EXCEPT ![r] = Idle]
    /\ UNCHANGED service

ResumeNext ==
  \/ UploadFindActive
  \/ UploadArchive
  \/ UploadSave
  \/ UploadFail
  \/ ActivateDeactivateAll
  \/ ActivateSelected
  \/ DeleteFind
  \/ DeleteRecord

ResumeSpec == Init /\ [][ResumeNext]_vars

----------------------------------------------------------------------------
(* Match routes, one request at a time.  The store holds the jobs and the  *)
(* resumes that were created before.                                       *)

MatchInit ==
  /\ op = "none"
  /\ args = <<>>
  /\ result = <<>>
  /\ requests = [r \in Slots |-> Idle]
  /\ \E resumes \in {<<>>, <<NewResume>>}, jobs \in [1..MaxJobs -> {NewJob(s) : s \in JobStatuses}] :
       db = [EmptyDb EXCEPT !.resumes = resumes, !.jobs = jobs]

(* aiMatching.findJobMatches with the default minScore; the result holds   *)
(* the jobs of the returned matches                                        *)
CallFindJobMatches ==
  /\ op = "none"
  /\ \E scores \in [1..MaxJobs -> MatchScores], malformed \in SUBSET (1..MaxJobs) :
       LET found == findJobMatches(db.resumes, db.jobs, scores, malformed, DefaultMinScore)
       IN /\ op' = "findJobMatches"
          /\ args' = [scores |-> scores, malformed |-> malformed]
          /\ result' = [threw |-> found.threw,
                        jobs |-> [k \in 1..Len(found.value) |-> found.value[k].job]]
  /\ UNCHANGED store

(* POST /api/matches/generate with the default minScore, for postings that *)
(* are well formed                                                         *)
CallGenerateMatches ==
  /\ op = "none"
  /\ \E scores \in [1..MaxJobs -> MatchScores] :
       LET found == findJobMatches(db.resumes, db.jobs, scores, {}, DefaultMinScore)
           saved == saveMatches(db.matches, found.value, 0)
       IN /\ op' = "generateMatches"
          /\ args' = [scores |-> scores]
          /\ result' = IF found.threw \/ saved.threw
                       THEN [status |-> 500, totalMatches |-> 0]
                       ELSE [status |-> 200, totalMatches |-> saved.saved]
          /\ db' = [db EXCEPT !.matches = saved.matches]
  /\ UNCHANGED requests

(* aiMatching.saveMatch for a job and the active resume *)
CallSaveMatch ==
  /\ op = "none"
  /\ \E job \in 1..MaxJobs, resume \in findActive(db.resumes), matchScore \in MatchScores :
       LET saved == saveMatch(db.matches, job, resume, matchScore,
                              Some(matchScore), Some(matchScore))
       IN /\ op' = "saveMatch"
          /\ args' = [job |-> job, matchScore |-> matchScore]
          /\ result' = [threw |-> saved.threw]
          /\ db' = [db EXCEPT !.matches = saved.matches]
  /\ UNCHANGED requests

(* POST /api/applications: matchScore is the overall score                 *)
(* calculateJobMatchScore gives for the resume and the job                 *)
CallApply ==
  /\ op = "none"
  /\ \E jobId \in 0..MaxJobs, matchScore \in MatchScores :
       /\ op' = "apply"
       /\ args' = [jobId |-> jobId, matchScore |-> matchScore]
       /\ IF jobId \notin DOMAIN db.jobs
          THEN result' = [status |-> 404] /\ db' = db
          ELSE IF db.jobs[jobId].status # "active"
                  \/ \E a \in DOMAIN db.applications : db.applications[a].job = jobId
                  \/ findActive(db.resumes) = {}
          THEN result' = [status |-> 400] /\ db' = db
          ELSE \E resume \in findActive(db.resumes) :
                 /\ result' = [status |-> 201]
                 /\ db' = [db EXCEPT
                      !.applications = Append(@, [job |-> jobId, resume |-> resume,
                                                  matchScore |-> matchScore]),
                      !.jobs[jobId].applicationsCount = @ + 1,
                      !.matches = upsertApplied(@, jobId, resume, matchScore)]
  /\ UNCHANGED requests

MatchNext ==
  \/ CallFindJobMatches
  \/ CallGenerateMatches
  \/ CallSaveMatch
  \/ CallApply
  \/ Return

MatchSpec == MatchInit /\ [][MatchNext]_vars

----------------------------------------------------------------------------
(* POST /api/applications step by step.  A handler runs from one await to  *)
(* the next without interruption; the handlers of other requests, of the   *)
(* same seeker or of another one, run in between.  Seeker n has one       *)
(* resume, db.resumes[n], which is active.                                 *)

Applicants == {1, 2}

ApplicationsOf(applications, job, applicant) ==
  {a \in DOMAIN applications :
     applications[a].job = job /\ applications[a].applicant = applicant}

Applying(pc, applicant, id, job, matchScore) ==
  [kind |-> "apply", pc |-> pc, id |-> id, applicant |-> applicant,
   job |-> job, matchScore |-> matchScore]

(* Match.findOneAndUpdate({ user, job }, { user, job, resume, matchScore,  *)
(* status: 'applied' }, { upsert: true, new: true })                       *)
upsertAppliedOf(matches, user, job, matchScore) ==
  IF \E i \in DOMAIN matches : matches[i].user = user /\ matches[i].job = job
  THEN [i \in DOMAIN matches |->
          IF matches[i].user = user /\ matches[i].job = job
          THEN [matches[i] EXCEPT !.resume = user, !.matchScore = matchScore,
                                  !.status = "applied"]
          ELSE matches[i]]
  ELSE Append(matches, [user |-> user, job |-> job, resume |-> user,
                        matchScore |-> matchScore, status |-> "applied"])

ApplyInit ==
  /\ op = "none"
  /\ args = <<>>
  /\ result = <<>>
  /\ requests = [r \in Slots |-> Idle]
  /\ \E status \in JobStatuses :
       db = [EmptyDb EXCEPT !.resumes = [applicant \in Applicants |-> NewResume],
                            !.jobs = <<NewJob(status)>>]

(* up to the answer of Job.findById: 400 without a jobId, 404 without the  *)
(* job, 400 when the job is not active; the handler keeps the document     *)
ApplyFindJob ==
  \E r \in Slots, applicant \in Applicants, jobId \in 0..MaxJobs :
    /\ requests[r] = Idle
    /\ requests' = [requests EXCEPT ![r] =
         IF jobId \in DOMAIN db.jobs /\ db.jobs[jobId].status = "active"
         THEN Applying("findExisting", applicant, jobId, db.jobs[jobId], 0)
         ELSE Idle]
    /\ UNCHANGED <<db, service>>

(* Application.findOne({ job, applicant }): 400 when there is one *)
ApplyFindExisting ==
  \E r \in Slots :
    /\ requests[r].kind = "apply" /\ requests[r].pc = "findExisting"
    /\ requests' = [requests EXCEPT ![r] =
         IF ApplicationsOf(db.applications, requests[r].id, requests[r].applicant) # {}
         THEN Idle
         ELSE [requests[r] EXCEPT !.pc = "matchScore"]]
    /\ UNCHANGED <<db, service>>

(* Resume.findOne({ user, isActive: true }), 400 without one, and          *)
(* calculateJobMatchScore                                                  *)
ApplyMatchScore ==
  \E r \in Slots, matchScore \in MatchScores :
    /\ requests[r].kind = "apply" /\ requests[r].pc = "matchScore"
    /\ requests' = [requests EXCEPT ![r] =
         IF db.resumes[requests[r].applicant].isActive
         THEN [requests[r] EXCEPT !.pc = "saveApplication", !.matchScore = matchScore]
         ELSE Idle]
    /\ UNCHANGED <<db, service>>

(* application.save(): the unique index on (job, applicant) rejects a      *)
(* second record of the pair, save() raises and the request ends with 500  *)
ApplySaveApplication ==
  \E r \in Slots :
    /\ requests[r].kind = "apply" /\ requests[r].pc = "saveApplication"
    /\ IF ApplicationsOf(db.applications, requests[r].id, requests[r].applicant) # {}
       THEN /\ requests' = [requests EXCEPT ![r] = Idle]
            /\ db' = db
       ELSE /\ requests' = [requests EXCEPT ![r].pc = "saveJob"]
            /\ db' = [db EXCEPT !.applications =
                        Append(@, [job |-> requests[r].id,
                                   applicant |-> requests[r].applicant,
                                   resume |-> requests[r].applicant,
                                   matchScore |-> requests[r].matchScore])]
    /\ UNCHANGED service

(* job.applicationsCount += 1 on the document the handler holds, and       *)
(* job.save(), which writes the new value of the field                     *)
ApplySaveJob ==
  \E r \in Slots :
    /\ requests[r].kind = "apply" /\ requests[r].pc = "saveJob"
    /\ db' = [db EXCEPT !.jobs[requests[r].id].applicationsCount =
                          requests[r].job.applicationsCount + 1]
    /\ requests' = [requests EXCEPT ![r].pc = "upsertMatch"]
    /\ UNCHANGED service

(* Match.findOneAndUpdate with upsert, then 201 *)
ApplyUpsertMatch ==
  \E r \in Slots :
    /\ requests[r].kind = "apply" /\ requests[r].pc = "upsertMatch"
    /\ db' = [db EXCEPT !.matches =
                upsertAppliedOf(@, requests[r].applicant, requests[r].id,
                                requests[r].matchScore)]
    /\ requests' = [requests EXCEPT ![r] = Idle]
    /\ UNCHANGED service

ApplyNext ==
  \/ ApplyFindJob
  \/ ApplyFindExisting
  \/ ApplyMatchScore
  \/ ApplySaveApplication
  \/ ApplySaveJob
  \/ ApplyUpsertMatch

ApplySpec == ApplyInit /\ [][ApplyNext]_vars

----------------------------------------------------------------------------
(* Job routes.  A job keeps its title, its description, the names of its   *)
(* required skills and its embedding; an embedding is known by the text it *)
(* was computed from.                                                      *)

JobTitles == {<<"D", "e", "v">>, <<"O", "p", "s">>}
JobDescriptions == {<<"A", "P", "I">>, <<"W", "e", "b">>}
PostedSkillLists == {<<Go>>, <<Go, SQL>>}

(* the template literal title, description and the names joined by spaces *)
jobText(title, description, skills) ==
  title \o <<" ">> \o description \o <<" ">> \o joinWords(skills)

embeddingOf(text) == [text |-> text]

(* the fields a request body may carry *)
JobUpdates ==
  [title : {None} \cup {Some(t) : t \in JobTitles},
   description : {None} \cup {Some(d) : d \in JobDescriptions},
   skills : {None} \cup {Some(s) : s \in PostedSkillLists}]

JobInit ==
  /\ op = "none"
  /\ args = <<>>
  /\ result = <<>>
  /\ requests = [r \in Slots |-> Idle]
  /\ db = EmptyDb

(* POST /api/jobs *)
CreateJob ==
  \E title \in JobTitles, description \in JobDescriptions, skills \in PostedSkillLists :
    /\ Len(db.jobs) < MaxJobs
    /\ db' = [db EXCEPT !.jobs =
                Append(@, [title |-> title, description |-> description,
                           skills |-> skills,
                           embedding |-> embeddingOf(jobText(title, description, skills))])]
    /\ UNCHANGED <<requests, service>>

(* PUT /api/jobs/:id by the owner of the job; the embedding is computed    *)
(* again when the body has a description or requirements                   *)
UpdateJob ==
  \E id \in DOMAIN db.jobs, updateData \in JobUpdates :
    LET job == db.jobs[id]
        title == IF updateData.title # None THEN Get(updateData.title) ELSE job.title
        description == IF updateData.description # None
                       THEN Get(updateData.description) ELSE job.description
        skills == IF updateData.skills # None THEN Get(updateData.skills) ELSE job.skills
    IN /\ db' = [db EXCEPT !.jobs[id] =
                   [title |-> title, description |-> description, skills |-> skills,
                    embedding |-> IF updateData.description # None \/ updateData.skills # None
                                  THEN embeddingOf(jobText(title, description, skills))
                                  ELSE job.embedding]]
       /\ UNCHANGED <<requests, service>>

JobNext ==
  \/ CreateJob
  \/ UpdateJob

JobSpec == JobInit /\ [][JobNext]_vars

----------------------------------------------------------------------------
(* The calls on the backend step by step.  A call sends its request with   *)
(* await model.embedContent(...) or await model.generateContent(...) and   *)
(* goes on when the backend has answered or failed; getGenerativeModel is  *)
(* given no request options and the await is raced against no timer.       *)

Unanswered == "pending"

AwaitingBackend == op # "none" /\ args.backend.kind = Unanswered

AwaitGenerateEmbedding ==
  /\ op = "none"
  /\ UNCHANGED store
  /\ \E text \in EmbeddingTexts :
       /\ op' = "generateEmbedding"
       /\ args' = [text |-> text, backend |-> [kind |-> Unanswered, values |-> <<>>]]
       /\ result' = <<>>

AwaitCalculateSkillsMatch ==
  /\ op = "none"
  /\ UNCHANGED store
  /\ \E resumeSkills \in ResumeSkillLists, jobSkills \in JobSkillLists :
       /\ op' = "calculateSkillsMatch"
       /\ args' = [resumeSkills |-> resumeSkills, jobSkills |-> jobSkills,
                   backend |-> [kind |-> Unanswered, text |-> <<>>]]
       /\ result' = <<>>

AwaitExtractStructuredData ==
  /\ op = "none"
  /\ UNCHANGED store
  /\ \E text \in ResumeTexts(MaxLines - 1) :
       /\ op' = "extractStructuredData"
       /\ args' = [text |-> text, backend |-> [kind |-> Unanswered, text |-> <<>>]]
       /\ result' = <<>>

AwaitGenerateAIInsights ==
  /\ op = "none"
  /\ UNCHANGED store
  /\ \E resume \in InsightResumes, job \in InsightJobs, matchScore \in InsightScores :
       /\ op' = "generateAIInsights"
       /\ args' = [resume |-> resume, job |-> job, matchScore |-> matchScore,
                   backend |-> [kind |-> Unanswered, text |-> <<>>]]
       /\ result' = <<>>

(* the backend answers or fails, and the call goes on to its result or to  *)
(* its catch block; result holds what the call returns                     *)
BackendAnswers ==
  /\ AwaitingBackend
  /\ UNCHANGED <<store, op>>
  /\ \E backend \in
         CASE op = "generateEmbedding" -> EmbeddingBackends
           [] op = "calculateSkillsMatch" -> Backends
           [] OTHER -> {b \in Backends : b.kind # "text"} :
       /\ args' = [args EXCEPT !.backend = backend]
       /\ result' = Some(
            CASE op = "generateEmbedding" -> generateEmbedding(args.text, backend)
              [] op = "calculateSkillsMatch" ->
                   calculateSkillsMatch(args.resumeSkills, args.jobSkills, backend)
              [] op = "extractStructuredData" -> extractStructuredData(args.text, backend)
              [] OTHER ->
                   generateAIInsights(args.resume, args.job, args.matchScore, backend))

(* the call has returned or raised *)
CallCompleted ==
  /\ op # "none" /\ ~AwaitingBackend
  /\ UNCHANGED store
  /\ op' = "none"
  /\ args' = <<>>
  /\ result' = <<>>

AwaitNext ==
  \/ AwaitGenerateEmbedding
  \/ AwaitCalculateSkillsMatch
  \/ AwaitExtractStructuredData
  \/ AwaitGenerateAIInsights
  \/ BackendAnswers
  \/ CallCompleted

(* The event loop runs every continuation that is ready; nothing obliges   *)
(* the backend to answer.                                                  *)
AwaitSpec == Init /\ [][AwaitNext]_vars /\ WF_vars(CallCompleted)


----------------------------------------------------------------------------
(* Properties of the match aggregator *)

IsMatchCall == op = "calculateJobMatchScore"

InRange(x) == x \in 0..100

DimensionsInRange(r) ==
  /\ InRange(r.skillsMatch)
  /\ InRange(r.experienceMatch)
  /\ InRange(r.educationMatch)
  /\ InRange(r.locationMatch)

(* ten times the weighted sum 0.4 s + 0.3 e + 0.2 d + 0.1 l *)
TenfoldWeightedSum(r) ==
  4 * r.skillsMatch + 3 * r.experienceMatch + 2 * r.educationMatch + r.locationMatch

C2_OnlyFailingDimensionZeroed ==
  (IsMatchCall /\ skillsStep(args.resume, args.job, args.backend).threw) =>
     LET e == calculateExperienceMatch(args.resume.experience, args.job.experience)
         d == calculateEducationMatch(args.resume.education, args.job.education)
         l == calculateLocationMatch(args.resume.personalInfo, args.job.location)
     IN /\ result.skillsMatch = 0
        /\ result.experienceMatch = e
        /\ result.educationMatch = d
        /\ result.locationMatch = l
        /\ result.overallScore = weightedOverall(0, e, d, l)

(* C3: each of the four dimension scores returned by calculateJobMatchScore *)
(* is an integer in [0,100], for every resume and job.                      *)
C3_DimensionScoresInRange ==
  IsMatchCall => DimensionsInRange(result)

(* an embedding that is absent, or the empty vector stored when embedding  *)
(* generation failed                                                        *)
EmbeddingMissing(e) == e = None \/ Get(e) = <<>>

(* C4: whenever the resume's skills embedding or the job's embedding is    *)
(* missing, the skills score is the one calculateSkillsMatch computes from *)
(* the two skill-name lists.                                                *)
C4_MissingEmbeddingUsesSkillLists ==
  (IsMatchCall /\ (\/ EmbeddingMissing(args.resume.skillsEmbedding)
                   \/ EmbeddingMissing(args.job.embedding))) =>
     result.skillsMatch =
       calculateSkillsMatch(args.resume.skills, args.job.skills, args.backend)

----------------------------------------------------------------------------
(* Properties of the vector comparison and of the skills scorers *)

AllZero(v) == \A i \in 1..Len(v) : v[i] = 0

(* C5: cosineSimilarity never raises; it returns 0 when the two vectors    *)
(* have different lengths and 0 when either vector is all-zero.            *)
C5_CosineSimilarityTotal ==
  op = "cosineSimilarity" =>
     /\ ~result.threw
     /\ (Len(args.vecA) # Len(args.vecB)) => result.value = Zero
     /\ (AllZero(args.vecA) \/ AllZero(args.vecB)) => result.value = Zero

(* the AI-assisted comparison failed: quota error, other error, or an      *)
(* answer that does not parse as an integer                                 *)
BackendFailed(backend) ==
  \/ backend.kind \in {"quota", "error"}
  \/ backend.kind = "text" /\ parseInt(trim(backend.text)) = None

(* C6: whenever the AI-assisted skills comparison fails, calculateSkillsMatch *)
(* returns the score of calculateSkillsMatchFallback for the same lists.      *)
C6_AnyFailureUsesLexicalFallback ==
  (op = "calculateSkillsMatch" /\ BackendFailed(args.backend)) =>
     result = calculateSkillsMatchFallback(args.resumeSkills, args.jobSkills)

(* twice the credit of one required skill: 2 for a name equal ignoring     *)
(* case, 1 for containment in either direction ignoring case, else 0       *)
CreditHalves(R, j) ==
  IF \E r \in 1..Len(R) : toLowerCase(R[r]) = toLowerCase(j) THEN 2
  ELSE IF \E r \in 1..Len(R) : \/ includes(toLowerCase(R[r]), toLowerCase(j))
                               \/ includes(toLowerCase(j), toLowerCase(R[r]))
       THEN 1
       ELSE 0

RECURSIVE SumCreditHalves(_, _)
SumCreditHalves(R, J) ==
  IF J = <<>> THEN 0 ELSE CreditHalves(R, Head(J)) + SumCreditHalves(R, Tail(J))

----------------------------------------------------------------------------
(* Properties of the experience and education scorers *)

IsExperienceCall == op = "calculateExperienceMatch"

NoMinimum(jobExperience) ==
  jobExperience = None \/ Get(jobExperience).min = None

(* C8: if the job specifies no minimum experience (no requirement, or a    *)
(* requirement object without min), calculateExperienceMatch returns 100   *)
(* for every resume, also one without experience entries.                  *)
C8_NoMinimumScoresFull ==
  (IsExperienceCall /\ NoMinimum(args.jobExperience)) => result = 100

RECURSIVE TotalMonths(_)
TotalMonths(experience) ==
  IF experience = <<>> THEN 0
  ELSE LET x == Head(experience)
       IN (IF x.startDate # None /\ x.endDate # None
           THEN 12 * (x.endDate[1].year - x.startDate[1].year)
                  + x.endDate[1].month - x.startDate[1].month
           ELSE 0) + TotalMonths(Tail(experience))

(* y is months / 12 rounded to the nearest integer (half up) *)
IsYearsOf(y, months) == 12 * y <= months + 6 /\ 12 * y > months - 6

HasMinimum(jobExperience) ==
  /\ jobExperience # None
  /\ Get(jobExperience).min # None
  /\ Get(Get(jobExperience).min) > 0

RequiresDegree(jobEducation) ==
  jobEducation # None /\ Get(jobEducation).required

(* some entry states a degree (a non-empty string) that contains the job's *)
(* required degree, ignoring case                                           *)
SomeDegreeContains(resumeEducation, degree) ==
  \E i \in 1..Len(resumeEducation) :
     LET d == resumeEducation[i].degree
     IN /\ d # None
        /\ d[1] # <<>>
        /\ includes(toLowerCase(d[1]), toLowerCase(degree))

----------------------------------------------------------------------------
(* Properties of the location scorer *)

(* a string field that is absent or empty *)
Missing(optStr) == optStr = None \/ optStr[1] = <<>>

ContainsEitherWay(a, b) ==
  \/ includes(toLowerCase(a), toLowerCase(b))
  \/ includes(toLowerCase(b), toLowerCase(a))

(* C11: calculateLocationMatch returns 100 if the job is remote, whatever  *)
(* the candidate location; otherwise 50 if the candidate location or the   *)
(* job city is missing; otherwise 100 if one string contains the other     *)
(* ignoring case; otherwise 30.                                             *)
C11_LocationPriorityOrder ==
  op = "calculateLocationMatch" =>
     LET location == args.personalInfo.location
         city == args.jobLocation.city
     IN result =
          (IF args.jobLocation.remote THEN 100
           ELSE IF Missing(location) \/ Missing(city) THEN 50
           ELSE IF ContainsEitherWay(location[1], city[1]) THEN 100
           ELSE 30)

(* a remote job scored for a candidate without location *)
C11_Witness ==
  /\ op = "calculateLocationMatch"
  /\ args.jobLocation.remote
  /\ args.personalInfo.location = None
  /\ args.jobLocation.city = Some(NY)
  /\ result = 100

----------------------------------------------------------------------------
(* End to end *)

(* C12: for a resume with skills {Python, SQL} and a job requiring         *)
(* {Python, Go} that states no experience, education or location           *)
(* constraint, without embeddings and with the skills score taken on the   *)
(* lexical path, calculateJobMatchScore yields skillsMatch 50, 100 for the *)
(* three other dimensions and overallScore 80.                              *)
C12_EndToEndExample ==
  (/\ IsMatchCall
   /\ args.resume.skills = <<Python, SQL>>
   /\ args.job.skills = <<Python, Go>>
   /\ args.resume.skillsEmbedding = None
   /\ args.job.embedding = None
   /\ args.backend.kind = "quota"
   /\ NoMinimum(args.job.experience)
   /\ ~RequiresDegree(args.job.education)
   /\ (args.job.location.remote \/ Missing(args.job.location.city)))
  => result = [skillsMatch |-> 50, experienceMatch |-> 100,
               educationMatch |-> 100, locationMatch |-> 100,
               overallScore |-> 80]

----------------------------------------------------------------------------
(* Properties of the vector embedder *)

(* C13: for every failure of the embedding backend, quota / rate-limit or  *)
(* any other error, generateEmbedding returns the fallback vector of the   *)
(* text and raises nothing to its caller.                                   *)
C13_EmbedderNeverPropagates ==
  (op = "generateEmbedding" /\ args.backend.kind \in {"quota", "error"}) =>
     /\ ~result.threw
     /\ result.value = generateFallbackEmbedding(args.text)

(* C14: generateFallbackEmbedding returns a vector of exactly 50           *)
(* components for every text: the empty string, a text with fewer than 50  *)
(* distinct words and a text with more than 50.                             *)
C14_FallbackHasFiftyComponents ==
  op = "generateFallbackEmbedding" => Len(result) = 50 /\ DOMAIN result = 1..50

(* a text with more than 50 distinct words longer than two characters *)
C14_Witness ==
  /\ op = "generateFallbackEmbedding"
  /\ Cardinality({w \in {split(args.text)[i] : i \in 1..Len(split(args.text))} :
                    Len(w) > 2}) > 50
  /\ Len(result) = 50

----------------------------------------------------------------------------
(* Properties of the response sanitiser *)

IsParseCall == op = "parseAIJsonResponse"

(* the answer inside the wrapping is one valid JSON object *)
WrapsOneObject ==
  /\ ~JSONparse(args.response.body).threw
  /\ JSONparse(args.response.body).value.type = "object"

ReturnsWrappedObject ==
  /\ ~result.threw
  /\ result.value = JSONparse(args.response.body).value

HasBrace(str) == \E i \in 1..Len(str) : str[i] \in {"{", "}"}

(* the wrapping holds no brace and the object holds no fence marker *)
PlainWrapping ==
  /\ \A i \in 1..Len(args.response.prefix) : ~HasBrace(args.response.prefix[i])
  /\ ~HasBrace(args.response.suffix)
  /\ ~includes(args.response.body, Fence)

WrapsOneArray ==
  /\ ~JSONparse(args.response.body).threw
  /\ JSONparse(args.response.body).value.type = "array"

(* the wrapping is fence markers and whitespace only *)
OnlyFences ==
  /\ trim(removeFences(concat(args.response.prefix))) = <<>>
  /\ trim(removeFences(args.response.suffix)) = <<>>

(* C26: a response that is one valid JSON array, bare or inside fence      *)
(* markers, parses to that array, also when its elements are objects.      *)
C26_ArrayResponseIsReturned ==
  (IsParseCall /\ WrapsOneArray /\ OnlyFences) =>
    /\ ~result.threw
    /\ result.value = JSONparse(args.response.body).value

----------------------------------------------------------------------------
(* Properties of the insight generator *)

IsInsightsCall == op = "generateAIInsights"

SomeListNonEmpty(insights) ==
  \/ insights.strengths # <<>>
  \/ insights.weaknesses # <<>>
  \/ insights.recommendations # <<>>
  \/ insights.interviewTips # <<>>
  \/ insights.skillGaps # <<>>

(* C17: generateAIInsights raises nothing and returns five lists of which  *)
(* at least one is not empty, for every resume, job, score and outcome of  *)
(* the backend.                                                             *)
C17_InsightsNeverEmpty ==
  IsInsightsCall => ~result.threw /\ SomeListNonEmpty(result.value)

(* the required skills of the job, in lower case, that no skill of the     *)
(* resume contains or is contained in                                      *)
MissingOf(resume, job) ==
  SelectSeq([i \in 1..Len(job.skills) |-> toLowerCase(job.skills[i])],
            LAMBDA jobSkill :
              ~\E i \in 1..Len(resume.skills) :
                 \/ includes(toLowerCase(Get(resume.skills[i])), jobSkill)
                 \/ includes(jobSkill, toLowerCase(Get(resume.skills[i]))))

IsFallbackInsights ==
  IsInsightsCall /\ args.backend.kind # "text" /\ ~result.threw

(* C27: the fallback insights hold min(3, number of missing skills) skill  *)
(* gaps, each naming a missing skill of the job with importance 5.         *)
C27_SkillGapsAreMissingSkills ==
  IsFallbackInsights =>
    /\ Len(result.value.skillGaps) = Min(3, Len(MissingOf(args.resume, args.job)))
    /\ \A i \in 1..Len(result.value.skillGaps) :
         /\ \E k \in 1..Len(MissingOf(args.resume, args.job)) :
              result.value.skillGaps[i].skill = MissingOf(args.resume, args.job)[k]
         /\ result.value.skillGaps[i].importance = 5

(* a job with four missing skills, of which three become skill gaps *)
C27_Witness ==
  /\ IsFallbackInsights
  /\ Len(MissingOf(args.resume, args.job)) > 3
  /\ Len(result.value.skillGaps) = 3

----------------------------------------------------------------------------
(* Properties of the structured extractor *)

IsExtractCall == op = "extractStructuredData"

(* a profile record: the merged record of the fallback or a JSON object    *)
(* of the backend                                                           *)
IsProfileRecord(value) ==
  \/ "personalInfo" \in DOMAIN value
  \/ "type" \in DOMAIN value /\ value.type = "object"

(* C15: extractStructuredData raises nothing and returns a profile record  *)
(* for every resume text and every behaviour of the backend; it returns    *)
(* the record of the rule-based fallback when the backend fails.           *)
C15_ExtractAlwaysYieldsProfile ==
  IsExtractCall =>
    /\ ~result.threw
    /\ IsProfileRecord(result.value)
    /\ (args.backend.kind # "text" => result.value = mergedExtraction(args.text))

(* C16: the rule-based extraction of the one-line resume                   *)
(* "Skills: Python, React, SQL" has exactly the skills Python, React and   *)
(* SQL, in that order, and empty experience, education and projects lists. *)
C16_InlineSkillsLine ==
  (op = "ruleBasedExtraction" /\ args.text = SkillsInline) =>
    /\ [k \in 1..Len(result.skills) |-> result.skills[k].name] = <<Python, React, SQL>>
    /\ result.experience = <<>>
    /\ result.education = <<>>
    /\ result.projects = <<>>

----------------------------------------------------------------------------
(* Properties of the resume routes *)

(* C19: the user has at most one stored resume with isActive = true, after *)
(* every interleaving of the steps of upload, activate and delete          *)
(* requests.                                                               *)
C19_AtMostOneActive == Cardinality(findActive(db.resumes)) <= 1

(* the steps of the request in slot r *)
StepOf(r) == requests'[r] # requests[r]

AnsweredNotFound(r) ==
  /\ requests[r].kind = "activate" /\ requests'[r] = Idle
  /\ ~IsStored(db.resumes, requests[r].id)

(* C29: an activate request for an id that names no resume of the user is  *)
(* answered with 404 and none of its steps changes isActive of a resume of *)
(* the user.                                                               *)
C29_UnknownIdChangesNothing ==
  [][\A r \in Slots :
       /\ (requests[r] = Idle /\ requests'[r] = Waiting("activate", "activate", UnknownId)) =>
            db'.resumes = db.resumes
       /\ (requests[r] = Waiting("activate", "activate", UnknownId) /\ StepOf(r)) =>
            AnsweredNotFound(r) /\ db'.resumes = db.resumes]_vars

UploadFailed(r) ==
  /\ requests[r].kind = "upload" /\ requests[r].pc = "parse"
  /\ requests'[r] = Idle
  /\ db'.resumes = db.resumes

(* C30: when an upload ends with 500 after parsing or saving has raised,   *)
(* the resume that was active when the upload started is still active.     *)
C30_FailedUploadKeepsActive ==
  [][\A r \in Slots :
       (UploadFailed(r) /\ IsStored(db.resumes, requests[r].id)) =>
         db'.resumes[requests[r].id].isActive]_vars

----------------------------------------------------------------------------
(* Properties of the match routes *)

HasActiveResume == findActive(db.resumes) # {}

(* the jobs for which the generation of args.scores has computed a match *)
MatchedJobs ==
  {job \in DOMAIN db.jobs :
     db.jobs[job].status = "active" /\ args.scores[job] >= DefaultMinScore}

(* C20: there is one Match record per job of the user once a match has     *)
(* been computed: no job has two records, a generation answers 200 and     *)
(* leaves a record for every job it has computed a match for, saving a     *)
(* match never fails, and an accepted application leaves the record of    *)
(* its job with the score and the status applied.                          *)
C20_OneMatchPerPair ==
  /\ \A job \in DOMAIN db.jobs : Cardinality(MatchesOf(db.matches, job)) <= 1
  /\ (op = "generateMatches" /\ HasActiveResume) =>
       /\ result.status = 200
       /\ \A job \in MatchedJobs : MatchesOf(db.matches, job) # {}
  /\ op = "saveMatch" => ~result.threw
  /\ (op = "apply" /\ result.status = 201) =>
       \E i \in MatchesOf(db.matches, args.jobId) :
         /\ db.matches[i].matchScore = args.matchScore
         /\ db.matches[i].status = "applied"

(* C23: in findJobMatches a posting that makes the processing of its job   *)
(* fail does not abort the batch: every other active job that reaches the  *)
(* minimum score is in the returned list.                                  *)
C23_BadPostingDoesNotAbort ==
  (op = "findJobMatches" /\ HasActiveResume) =>
    \A job \in DOMAIN db.jobs :
      (db.jobs[job].status = "active" /\ args.scores[job] >= DefaultMinScore
         /\ job \notin args.malformed) =>
        \E k \in 1..Len(result.jobs) : result.jobs[k] = job

(* C24: after an application answered with 201 the Match record of the     *)
(* user and the job holds the breakdown and the insights generated for the *)
(* application, with its score and the status applied.                     *)
C24_AppliedMatchHoldsInsights ==
  (op = "apply" /\ result.status = 201) =>
    \E i \in MatchesOf(db.matches, args.jobId) :
      /\ db.matches[i].matchScore = args.matchScore
      /\ db.matches[i].status = "applied"
      /\ db.matches[i].breakdown = Some(args.matchScore)
      /\ db.matches[i].aiInsights = Some(args.matchScore)

----------------------------------------------------------------------------
(* Properties of the fallback embedding *)

IsFallbackCall == op = "generateFallbackEmbedding"

(* the words of the text and its counted words in order of first occurrence *)
WordsOf(text) == split(toLowerCase(text))
EncounterOrder(text) ==
  distinct(SelectSeq(WordsOf(text), LAMBDA w : Len(w) > 2), {})

(* a text without the words constructor and __proto__, which name          *)
(* properties every object inherits                                        *)
OrdinaryText(text) ==
  \A k \in 1..Len(WordsOf(text)) : WordsOf(text)[k] \notin {Constructor, Proto}

(* C25: component i of the fallback embedding is the number of occurrences *)
(* of the i-th distinct lowercase word longer than 2, in order of first    *)
(* occurrence, over the number of words, and 0 past the last such word;    *)
(* stated for the texts of ordinary words.                                 *)
C25_ComponentsInEncounterOrder ==
  (IsFallbackCall /\ OrdinaryText(args.text)) =>
    \A i \in 1..FallbackDimensions :
      result[i] = IF i <= Len(EncounterOrder(args.text))
                  THEN [num |-> occurrences(WordsOf(args.text), EncounterOrder(args.text)[i]),
                        den |-> Len(WordsOf(args.text))]
                  ELSE [num |-> 0, den |-> 1]

----------------------------------------------------------------------------
(* Properties of the application route *)

NoRequestInFlight == \A r \in Slots : requests[r] = Idle

(* C28: once the submissions to a job have ended, whatever their           *)
(* interleaving, there is at most one Application record per job and       *)
(* applicant, and applicationsCount of the job is the number of            *)
(* Application records of the job.                                         *)
C28_CountMatchesApplications ==
  /\ \A job \in DOMAIN db.jobs, applicant \in Applicants :
       Cardinality(ApplicationsOf(db.applications, job, applicant)) <= 1
  /\ NoRequestInFlight =>
       \A job \in DOMAIN db.jobs :
         db.jobs[job].applicationsCount =
           Cardinality({a \in DOMAIN db.applications : db.applications[a].job = job})


----------------------------------------------------------------------------
(* Properties of the job routes *)

(* C21: after every sequence of create and update requests the embedding   *)
(* of a job is the one computed from its current title, description and    *)
(* names of required skills.                                               *)
C21_EmbeddingIsCurrent ==
  \A id \in DOMAIN db.jobs :
    db.jobs[id].embedding =
      embeddingOf(jobText(db.jobs[id].title, db.jobs[id].description, db.jobs[id].skills))

----------------------------------------------------------------------------
(* Properties of the calls on the backend *)

(* C22: every embedding, skills comparison, extraction and insight call    *)
(* completes, also when the backend never answers: a call that waits for   *)
(* the backend eventually waits no longer.                                 *)
C22_CallsComplete == AwaitingBackend ~> ~AwaitingBackend

=============================================================================
